---- MODULE Spec2Model ----
(***************************************************************************)
(* A model of the contacts REST service (internal/service): the five       *)
(* gin handlers findContacts, createContact, findContactByID,              *)
(* updateContactByID and deleteContactByID, the URL parameter parsers, and *)
(* the MySQL table `contacts` the handlers talk to.                        *)
(*                                                                         *)
(* Encoding of values                                                      *)
(*   - a Go string is a sequence of one-character strings;                 *)
(*   - a Go pointer (to a string or a time.Time) is <<>> for nil and      *)
(*     <<v>> for a pointer to v; a column is <<>> for NULL, <<v>> else;    *)
(*   - a time.Time is a record [y, m, d, h] in UTC (h = hour of the day);  *)
(*   - a JSON body is a record [j |-> kind, ...].                          *)
(***************************************************************************)
EXTENDS Integers, Sequences, FiniteSets, TLC

VARIABLES
    contacts,        \* the table: a function from the stored ids to their rows
    autoIncrement,   \* the AUTO_INCREMENT counter of the table
    inflight,        \* per handler goroutine: the PUT between its UPDATE and its SELECT
    resp,            \* the last request answered, with its response and its statements
    posted,          \* history: id -> the body of the POST that created it,
                     \*          while no PUT or DELETE has touched the id
    deleted,         \* history: the ids whose DELETE was answered 200
    sqlStrict        \* the server's sql_mode: TRUE when it is strict (the default)

vars == <<contacts, autoIncrement, inflight, resp, posted, deleted, sqlStrict>>

-----------------------------------------------------------------------------
(* Bounds of the model *)

\* the number of rows ever inserted (the values AUTO_INCREMENT hands out)
MaxContacts == 2

\* the number of handler goroutines that can hold a PUT between its two statements
MaxHandlers == 2

Handlers == 1..MaxHandlers

-----------------------------------------------------------------------------
(* Strings and numbers *)

Nil == <<>>
Ptr(v) == <<v>>

Min(a, b) == IF a <= b THEN a ELSE b

Digits == {"0", "1", "2", "3", "4", "5", "6", "7", "8", "9"}

DigitVal(c) ==
    CASE c = "0" -> 0 [] c = "1" -> 1 [] c = "2" -> 2 [] c = "3" -> 3 [] c = "4" -> 4
      [] c = "5" -> 5 [] c = "6" -> 6 [] c = "7" -> 7 [] c = "8" -> 8 [] c = "9" -> 9

DigitChar(n) ==
    CASE n = 0 -> "0" [] n = 1 -> "1" [] n = 2 -> "2" [] n = 3 -> "3" [] n = 4 -> "4"
      [] n = 5 -> "5" [] n = 6 -> "6" [] n = 7 -> "7" [] n = 8 -> "8" [] n = 9 -> "9"

AllDigits(s) == \A i \in 1..Len(s) : s[i] \in Digits

RECURSIVE StripZeros(_)
StripZeros(s) ==
    IF Len(s) > 1 /\ Head(s) = "0" THEN StripZeros(Tail(s)) ELSE s

\* a < b for two digit strings without leading zeros
RECURSIVE DecLess(_, _)
DecLess(a, b) ==
    IF Len(a) # Len(b) THEN Len(a) < Len(b)
    ELSE IF a = <<>> THEN FALSE
    ELSE IF Head(a) # Head(b) THEN DigitVal(Head(a)) < DigitVal(Head(b))
    ELSE DecLess(Tail(a), Tail(b))

\* the digits of maxInt = int(^uint(0) >> 1) = 9223372036854775807
maxInt ==
    <<"9", "2", "2", "3", "3", "7", "2", "0", "3", "6", "8", "5", "4", "7", "7", "5",
      "8", "0", "7">>

\* the magnitude of the smallest int, 9223372036854775808
minIntMagnitude ==
    <<"9", "2", "2", "3", "3", "7", "2", "0", "3", "6", "8", "5", "4", "7", "7", "5",
      "8", "0", "8">>

\* strconv.Atoi: an optional sign, then one or more decimal digits, in the range of
\* int. The number is [neg, mag]: its sign and the digits of its magnitude.
Atoi(s) ==
    LET signed == s # <<>> /\ Head(s) \in {"+", "-"}
        body   == IF signed THEN Tail(s) ELSE s
        mag    == StripZeros(body)
        neg    == signed /\ Head(s) = "-"
        limit  == IF neg THEN minIntMagnitude ELSE maxInt
    IN  IF body = <<>> \/ ~AllDigits(body) \/ DecLess(limit, mag)
        THEN [ok |-> FALSE, neg |-> FALSE, mag |-> <<"0">>]
        ELSE [ok |-> TRUE, neg |-> neg /\ mag # <<"0">>, mag |-> mag]

\* strconv.Itoa for the numbers of the model
RECURSIVE Itoa(_)
Itoa(n) == IF n < 10 THEN <<DigitChar(n)>> ELSE Itoa(n \div 10) \o <<DigitChar(n % 10)>>

\* the value of a short digit string
RECURSIVE DigitsToInt(_)
DigitsToInt(s) ==
    IF s = <<>> THEN 0 ELSE 10 * DigitsToInt(SubSeq(s, 1, Len(s) - 1)) + DigitVal(s[Len(s)])

\* min(the number with digits mag, n), for n a number of the model
Clamp(mag, n) ==
    IF Len(mag) > Len(Itoa(n)) THEN n ELSE Min(DigitsToInt(mag), n)

-----------------------------------------------------------------------------
(* The Contact structure and the JSON binding *)

\* a text of 51 characters, one more than a VARCHAR(50) column holds
LongText == [i \in 1..51 |-> "x"]

Omitted == [j |-> "omitted"]
JsonNull == [j |-> "null"]
JsonString(s) == [j |-> "string", v |-> s]
JsonNumber(n) == [j |-> "number", v |-> n]
\* an RFC 3339 timestamp in a JSON string
JsonTime(t) == [j |-> "time", v |-> t]
\* a body that is no JSON object: empty, not JSON, commas missing
Malformed == [j |-> "malformed"]

JsonObject(id, first, last, phone, bday) ==
    [j |-> "object", id |-> id, firstname |-> first, lastname |-> last,
     phone |-> phone, birthday |-> bday]

NoContact ==
    [Id |-> 0, FirstName |-> Nil, LastName |-> Nil, Phone |-> Nil, Birthday |-> Nil]

\* json.Unmarshal of one member into a pointer field: a missing member and null
\* leave the pointer nil, a value of the field's JSON type sets it
DecodesTo(member, kind) == member.j \in {"omitted", "null", kind}

\* a decoder that makes of null a pointer to the empty text
PointerOfNullAsEmpty(member) ==
    IF member.j = "omitted" THEN Nil
    ELSE IF member.j = "null" THEN Ptr(<<>>)
    ELSE Ptr(member.v)

PointerOf(member) == IF member.j \in {"omitted", "null"} THEN Nil ELSE Ptr(member.v)

\* a binding that takes null for a value of the wrong type
BindJSONNullRejected(body) ==
    IF body.j # "object" THEN [ok |-> FALSE, contact |-> NoContact]
    ELSE IF ~ ( /\ body.id.j \in {"omitted", "number"}
                /\ body.firstname.j \in {"omitted", "string"}
                /\ body.lastname.j \in {"omitted", "string"}
                /\ body.phone.j \in {"omitted", "string"}
                /\ body.birthday.j \in {"omitted", "time"} )
    THEN [ok |-> FALSE, contact |-> NoContact]
    ELSE [ok |-> TRUE,
          contact |-> [Id |-> IF body.id.j = "number" THEN body.id.v ELSE 0,
                       FirstName |-> PointerOf(body.firstname),
                       LastName |-> PointerOf(body.lastname),
                       Phone |-> PointerOf(body.phone),
                       Birthday |-> PointerOf(body.birthday)]]

\* c.BindJSON(&contact)
BindJSON(body) ==
    IF body.j # "object" THEN [ok |-> FALSE, contact |-> NoContact]
    ELSE IF ~ ( /\ DecodesTo(body.id, "number")
                /\ DecodesTo(body.firstname, "string")
                /\ DecodesTo(body.lastname, "string")
                /\ DecodesTo(body.phone, "string")
                /\ DecodesTo(body.birthday, "time") )
    THEN [ok |-> FALSE, contact |-> NoContact]
    ELSE [ok |-> TRUE,
          contact |-> [Id |-> IF body.id.j = "number" THEN body.id.v ELSE 0,
                       FirstName |-> PointerOf(body.firstname),
                       LastName |-> PointerOf(body.lastname),
                       Phone |-> PointerOf(body.phone),
                       Birthday |-> PointerOf(body.birthday)]]

-----------------------------------------------------------------------------
(* The table `contacts` and the statements sent to it *)

\* CREATE TABLE contacts: firstname, lastname, phone VARCHAR(50)
VarcharLen == 50

NULL == <<>>

\* what a VARCHAR(50) column makes of a text: a text that fits is stored as it is;
\* a longer one is refused under a strict sql_mode and cut to 50 characters else
Varchar(v, strict) ==
    IF v = NULL THEN [err |-> FALSE, v |-> NULL]
    ELSE IF Len(v[1]) <= VarcharLen THEN [err |-> FALSE, v |-> v]
    ELSE IF strict THEN [err |-> TRUE, v |-> NULL]
    ELSE [err |-> FALSE, v |-> <<SubSeq(v[1], 1, VarcharLen)>>]

\* what the DATE column makes of a datetime: the time of the day is dropped
Date(v) == IF v = NULL THEN NULL ELSE <<[v[1] EXCEPT !.h = 0]>>

\* columns that hold the empty text where no text is given
ColumnsEmptyForNull(first, last, phone, bday, strict) ==
    LET f == Varchar(IF first = NULL THEN <<<<>>>> ELSE first, strict)
        l == Varchar(IF last = NULL THEN <<<<>>>> ELSE last, strict)
        p == Varchar(IF phone = NULL THEN <<<<>>>> ELSE phone, strict)
    IN  [err |-> f.err \/ l.err \/ p.err,
         row |-> [firstname |-> f.v, lastname |-> l.v, phone |-> p.v,
                  birthday |-> Date(bday)]]

\* the columns of a row, from the values given for them
Columns(first, last, phone, bday, strict) ==
    LET f == Varchar(first, strict)
        l == Varchar(last, strict)
        p == Varchar(phone, strict)
    IN  [err |-> f.err \/ l.err \/ p.err,
         row |-> [firstname |-> f.v, lastname |-> l.v, phone |-> p.v,
                  birthday |-> Date(bday)]]

\* sqlx scans a row into a model.Contact (parseTime=true: a DATE is a time.Time at
\* midnight UTC, NULL is a nil pointer)
ScanContact(id, row) ==
    [Id |-> id, FirstName |-> row.firstname, LastName |-> row.lastname,
     Phone |-> row.phone, Birthday |-> row.birthday]

\* `id = ?` with the path id bound as a string: MySQL compares the numbers
IdMatches(id, arg) ==
    LET n == Atoi(arg) IN n.ok /\ ~n.neg /\ n.mag = Itoa(id)

MatchingIds(table, arg) == {id \in DOMAIN table : IdMatches(id, arg)}

\* a statement on its way to the store: its SQL text (a sequence of fragments) and
\* the arguments bound to its placeholders
Statement(sql, args) == [sql |-> sql, args |-> args]

insert ==
    <<"INSERT INTO contacts (firstname, lastname, phone, birthday) VALUES (:firstname, :lastname, :phone, :birthday)">>
selectWhereId == <<"SELECT * FROM contacts WHERE id = ?">>
deleteWhereId == <<"DELETE FROM contacts WHERE id = ?">>

\* a table that numbers a new row one above the highest id it holds
ExecInsertAboveHighest(table, auto, contact, strict) ==
    LET c == Columns(contact.FirstName, contact.LastName, contact.Phone,
                     contact.Birthday, strict)
        id == IF DOMAIN table = {} THEN 1
              ELSE 1 + CHOOSE i \in DOMAIN table : \A k \in DOMAIN table : k <= i
    IN  IF c.err
        THEN [err |-> TRUE, table |-> table, auto |-> auto, lastInsertId |-> 0]
        ELSE [err |-> FALSE,
              table |-> [i \in DOMAIN table \cup {id} |-> IF i = id THEN c.row ELSE table[i]],
              auto |-> auto + 1,
              lastInsertId |-> id]

\* an INSERT that has the id column in it: an id other than 0 is stored as given
ExecInsertGivenId(table, auto, contact, strict) ==
    LET c == Columns(contact.FirstName, contact.LastName, contact.Phone,
                     contact.Birthday, strict)
        id == IF contact.Id > 0 /\ contact.Id \notin DOMAIN table THEN contact.Id ELSE auto
    IN  IF c.err
        THEN [err |-> TRUE, table |-> table, auto |-> auto, lastInsertId |-> 0]
        ELSE [err |-> FALSE,
              table |-> [i \in DOMAIN table \cup {id} |-> IF i = id THEN c.row ELSE table[i]],
              auto |-> IF id >= auto THEN id + 1 ELSE auto,
              lastInsertId |-> id]

\* INSERT of the named statement `insert`: the id column is not in the statement,
\* AUTO_INCREMENT assigns it
ExecInsert(table, auto, contact, strict) ==
    LET c == Columns(contact.FirstName, contact.LastName, contact.Phone,
                     contact.Birthday, strict)
    IN  IF c.err
        THEN [err |-> TRUE, table |-> table, auto |-> auto, lastInsertId |-> 0]
        ELSE [err |-> FALSE,
              table |-> [id \in DOMAIN table \cup {auto} |->
                            IF id = auto THEN c.row ELSE table[id]],
              auto |-> auto + 1,
              lastInsertId |-> auto]

\* SELECT * FROM contacts WHERE id = ?: the rows found, scanned
ExecSelectWhereId(table, arg) ==
    LET ids == MatchingIds(table, arg)
    IN  IF ids = {} THEN <<>>
        ELSE LET id == CHOOSE i \in ids : TRUE IN <<ScanContact(id, table[id])>>

\* a DELETE whose WHERE clause keeps every row up to the id
ExecDeleteUpTo(table, arg) ==
    LET ids == {id \in DOMAIN table : \E k \in MatchingIds(table, arg) : id <= k}
    IN  [table |-> [id \in DOMAIN table \ ids |-> table[id]],
         rowsAffected |-> Cardinality(ids)]

\* DELETE FROM contacts WHERE id = ?
ExecDelete(table, arg) ==
    LET ids == MatchingIds(table, arg)
    IN  [table |-> [id \in DOMAIN table \ ids |-> table[id]],
         rowsAffected |-> Cardinality(ids)]

\* the assignments of an UPDATE statement, and the column each one sets
Assignments == {"firstname=?", "lastname=?", "phone=?", "birthday=?"}
ColumnOf(a) ==
    CASE a = "firstname=?" -> "firstname" [] a = "lastname=?" -> "lastname"
      [] a = "phone=?" -> "phone" [] a = "birthday=?" -> "birthday"

\* "UPDATE contacts SET a1, a2, ... WHERE id=?" is well formed when assignments
\* and separators alternate between the head and the WHERE clause
UpdateWellFormed(sql) ==
    /\ Len(sql) >= 3 /\ Len(sql) % 2 = 1
    /\ sql[1] = "UPDATE contacts SET "
    /\ sql[Len(sql)] = " WHERE id=?"
    /\ \A i \in 2..(Len(sql) - 1) :
          IF i % 2 = 0 THEN sql[i] \in Assignments ELSE sql[i] = ", "

\* an UPDATE that writes NULL into the columns it does not assign
RECURSIVE AssignedOrNull(_, _, _, _)
AssignedOrNull(assigns, vals, col, old) ==
    IF assigns = <<>> THEN NULL
    ELSE IF ColumnOf(assigns[Len(assigns)]) = col THEN vals[Len(vals)]
    ELSE AssignedOrNull(SubSeq(assigns, 1, Len(assigns) - 1), SubSeq(vals, 1, Len(vals) - 1),
                        col, old)

\* the value a column has after the assignments (assigns[k] binds vals[k]); the
\* last assignment to a column wins
RECURSIVE Assigned(_, _, _, _)
Assigned(assigns, vals, col, old) ==
    IF assigns = <<>> THEN old
    ELSE IF ColumnOf(assigns[Len(assigns)]) = col THEN vals[Len(vals)]
    ELSE Assigned(SubSeq(assigns, 1, Len(assigns) - 1), SubSeq(vals, 1, Len(vals) - 1),
                  col, old)

\* an UPDATE that changes the rows and reports that it affected none
ExecUpdateUncounted(table, stmt, strict) ==
    LET sql  == stmt.sql
        args == stmt.args
        n    == (Len(sql) - 1) \div 2
    IN  IF ~UpdateWellFormed(sql) \/ Len(args) # n + 1
        THEN [err |-> TRUE, table |-> table, rowsAffected |-> 0]
        ELSE
        LET set   == [k \in 1..n |-> sql[2 * k]]
            vals  == SubSeq(args, 1, n)
            ids   == MatchingIds(table, args[n + 1])
            new(id) == Columns(Assigned(set, vals, "firstname", table[id].firstname),
                               Assigned(set, vals, "lastname", table[id].lastname),
                               Assigned(set, vals, "phone", table[id].phone),
                               Assigned(set, vals, "birthday", table[id].birthday),
                               strict)
        IN  IF \E id \in ids : new(id).err
            THEN [err |-> TRUE, table |-> table, rowsAffected |-> 0]
            ELSE [err |-> FALSE,
                  table |-> [id \in DOMAIN table |->
                                IF id \in ids THEN new(id).row ELSE table[id]],
                  rowsAffected |-> 0]

\* UPDATE contacts SET ... WHERE id=?. The DSN does not ask for CLIENT_FOUND_ROWS,
\* so the rows affected are the rows the statement changed, not the rows it matched.
ExecUpdate(table, stmt, strict) ==
    LET sql  == stmt.sql
        args == stmt.args
        n    == (Len(sql) - 1) \div 2
    IN  IF ~UpdateWellFormed(sql) \/ Len(args) # n + 1
        THEN [err |-> TRUE, table |-> table, rowsAffected |-> 0]
        ELSE
        LET set   == [k \in 1..n |-> sql[2 * k]]
            vals  == SubSeq(args, 1, n)
            ids   == MatchingIds(table, args[n + 1])
            new(id) == Columns(Assigned(set, vals, "firstname", table[id].firstname),
                               Assigned(set, vals, "lastname", table[id].lastname),
                               Assigned(set, vals, "phone", table[id].phone),
                               Assigned(set, vals, "birthday", table[id].birthday),
                               strict)
        IN  IF \E id \in ids : new(id).err
            THEN [err |-> TRUE, table |-> table, rowsAffected |-> 0]
            ELSE [err |-> FALSE,
                  table |-> [id \in DOMAIN table |->
                                IF id \in ids THEN new(id).row ELSE table[id]],
                  rowsAffected |-> Cardinality({id \in ids : new(id).row # table[id]})]

-----------------------------------------------------------------------------
(* Requests and responses *)

StatusOK == 200
StatusCreated == 201
StatusBadRequest == 400
StatusNotFound == 404
\* log.Panicln / MustExec: the handler panics; gin's recovery answers 500
StatusPanic == 500

Absent == Nil
NoQuery ==
    [firstname |-> Absent, lastname |-> Absent, birthday |-> Absent, limit |-> Absent,
     offset |-> Absent, orderby |-> Absent, ascending |-> Absent]

Request(op, id, body, query) == [op |-> op, id |-> id, body |-> body, query |-> query]
NoRequest == Request("none", <<>>, Omitted, NoQuery)

\* c.IndentedJSON / c.AbortWithStatusJSON: message is the gin.H message ("" when the
\* body is a contact or a list), body the contacts written, stmts the statements
\* the request has sent to the store
Response(req, status, message, body, stmts) ==
    [req |-> req, status |-> status, message |-> message, body |-> body, stmts |-> stmts]

Idle == [pc |-> "idle", req |-> NoRequest, stmts |-> <<>>]

-----------------------------------------------------------------------------
(* createContact *)

\* createContact that inserts what was bound before it looks at the error of the
\* binding
createContactOutcomeInsertFirst(table, auto, req, strict) ==
    LET bound == BindJSON(req.body)
        newContact == bound.contact
        stmt == Statement(insert, <<newContact.FirstName, newContact.LastName,
                                    newContact.Phone, newContact.Birthday>>)
        result == ExecInsert(table, auto, newContact, strict)
    IN  IF result.err
        THEN [table |-> table, auto |-> auto,
              resp |-> Response(req, StatusPanic, "", <<>>, <<stmt>>)]
        ELSE IF ~bound.ok
        THEN [table |-> result.table, auto |-> result.auto,
              resp |-> Response(req, StatusBadRequest, "invalid JSON", <<>>, <<stmt>>)]
        ELSE [table |-> result.table, auto |-> result.auto,
              resp |-> Response(req, StatusCreated, "",
                                <<[newContact EXCEPT !.Id = result.lastInsertId]>>,
                                <<stmt>>)]

\* the outcome of POST /contacts: the response and the table after it
createContactOutcome(table, auto, req, strict) ==
    LET bound == BindJSON(req.body)
        newContact == bound.contact
        stmt == Statement(insert, <<newContact.FirstName, newContact.LastName,
                                    newContact.Phone, newContact.Birthday>>)
        result == ExecInsert(table, auto, newContact, strict)
    IN  IF ~bound.ok
        THEN [table |-> table, auto |-> auto,
              resp |-> Response(req, StatusBadRequest, "invalid JSON", <<>>, <<>>)]
        ELSE IF result.err
        THEN [table |-> table, auto |-> auto,
              resp |-> Response(req, StatusPanic, "", <<>>, <<stmt>>)]
        ELSE [table |-> result.table, auto |-> result.auto,
              resp |-> Response(req, StatusCreated, "",
                                <<[newContact EXCEPT !.Id = result.lastInsertId]>>,
                                <<stmt>>)]

createContact(body) ==
    LET req == Request("POST", <<>>, body, NoQuery)
        out == createContactOutcome(contacts, autoIncrement, req, sqlStrict)
    IN  /\ contacts' = out.table
        /\ autoIncrement' = out.auto
        /\ resp' = out.resp
        /\ posted' = IF out.resp.status = StatusCreated
                     THEN [id \in DOMAIN posted \cup {out.resp.body[1].Id} |->
                              IF id = out.resp.body[1].Id THEN body
                              ELSE posted[id]]
                     ELSE posted
        /\ UNCHANGED <<inflight, deleted, sqlStrict>>

-----------------------------------------------------------------------------
(* findContactByID *)

\* findContactByID that selects before it looks at the path id
findContactByIDOutcomeSelectFirst(table, req) ==
    LET id == req.id
        stmt == Statement(selectWhereId, <<id>>)
        found == ExecSelectWhereId(table, id)
    IN  IF Len(found) # 0
        THEN Response(req, StatusOK, "", <<found[1]>>, <<stmt>>)
        ELSE IF ~Atoi(id).ok
        THEN Response(req, StatusNotFound, "invalid id parameter", <<>>, <<stmt>>)
        ELSE Response(req, StatusNotFound, "contact not found", <<>>, <<stmt>>)

findContactByIDOutcome(table, req) ==
    LET id == req.id
        stmt == Statement(selectWhereId, <<id>>)
        found == ExecSelectWhereId(table, id)
    IN  IF ~Atoi(id).ok
        THEN Response(req, StatusNotFound, "invalid id parameter", <<>>, <<>>)
        ELSE IF Len(found) = 0
        THEN Response(req, StatusNotFound, "contact not found", <<>>, <<stmt>>)
        ELSE Response(req, StatusOK, "", <<found[1]>>, <<stmt>>)

findContactByID(id) ==
    /\ resp' = findContactByIDOutcome(contacts, Request("GET", id, Omitted, NoQuery))
    /\ UNCHANGED <<contacts, autoIncrement, inflight, posted, deleted, sqlStrict>>

-----------------------------------------------------------------------------
(* deleteContactByID *)

\* a handler that sends every path id to the store
deleteContactByIDUnvalidated(table, req) ==
    LET stmt == Statement(deleteWhereId, <<req.id>>)
        result == ExecDelete(table, req.id)
    IN  IF result.rowsAffected = 1
        THEN [table |-> result.table,
              resp |-> Response(req, StatusOK, "contact deleted", <<>>, <<stmt>>)]
        ELSE [table |-> result.table,
              resp |-> Response(req, StatusNotFound, "contact not found", <<>>, <<stmt>>)]

deleteContactByIDOutcome(table, req) ==
    LET id == req.id
        stmt == Statement(deleteWhereId, <<id>>)
        result == ExecDelete(table, id)
    IN  IF ~Atoi(id).ok
        THEN [table |-> table,
              resp |-> Response(req, StatusNotFound, "invalid id parameter", <<>>, <<>>)]
        ELSE IF result.rowsAffected = 1
        THEN [table |-> result.table,
              resp |-> Response(req, StatusOK, "contact deleted", <<>>, <<stmt>>)]
        ELSE [table |-> result.table,
              resp |-> Response(req, StatusNotFound, "contact not found", <<>>, <<stmt>>)]

\* the ids of the table a path id addresses
Addressed(id) == {i \in 1..autoIncrement : IdMatches(i, id)}

Untouched(id) == [i \in DOMAIN posted \ Addressed(id) |-> posted[i]]

deleteContactByID(id) ==
    LET out == deleteContactByIDOutcome(contacts, Request("DELETE", id, Omitted, NoQuery))
    IN  /\ contacts' = out.table
        /\ resp' = out.resp
        /\ posted' = Untouched(id)
        /\ deleted' = IF out.resp.status = StatusOK
                      THEN deleted \cup (DOMAIN contacts \ DOMAIN out.table)
                      ELSE deleted
        /\ UNCHANGED <<autoIncrement, inflight, sqlStrict>>

-----------------------------------------------------------------------------
(* updateContactByID *)

\* a SET list that assigns every field, a nil one as NULL
UpdateSetEveryField(submitted) ==
    [sql  |-> <<"UPDATE contacts SET ", "firstname=?", ", ", "lastname=?", ", ",
                "phone=?", ", ", "birthday=?", ", ">>,
     args |-> <<submitted.FirstName, submitted.LastName, submitted.Phone,
                submitted.Birthday>>]

\* the SET list and its arguments: one assignment, its separator and one argument
\* per field of the body that is not nil, in the order of the source
UpdateSet(submitted) ==
    LET first == IF submitted.FirstName # Nil
                 THEN [sql |-> <<"firstname=?", ", ">>, args |-> <<submitted.FirstName>>]
                 ELSE [sql |-> <<>>, args |-> <<>>]
        last  == IF submitted.LastName # Nil
                 THEN [sql |-> <<"lastname=?", ", ">>, args |-> <<submitted.LastName>>]
                 ELSE [sql |-> <<>>, args |-> <<>>]
        phone == IF submitted.Phone # Nil
                 THEN [sql |-> <<"phone=?", ", ">>, args |-> <<submitted.Phone>>]
                 ELSE [sql |-> <<>>, args |-> <<>>]
        bday  == IF submitted.Birthday # Nil
                 THEN [sql |-> <<"birthday=?", ", ">>, args |-> <<submitted.Birthday>>]
                 ELSE [sql |-> <<>>, args |-> <<>>]
    IN  [sql  |-> <<"UPDATE contacts SET ">> \o first.sql \o last.sql \o phone.sql \o bday.sql,
         args |-> first.args \o last.args \o phone.args \o bday.args]

\* an UPDATE text that keeps the separator after its last assignment
UpdateStatementUncut(set, id) ==
    Statement(set.sql \o <<" WHERE id=?">>, Append(set.args, id))

\* sql = sql[:len(sql)-2]; sql += " WHERE id=?"; args = append(args, id): the two
\* characters cut are the last fragment, the separator ", "
UpdateStatement(set, id) ==
    Statement(SubSeq(set.sql, 1, Len(set.sql) - 1) \o <<" WHERE id=?">>,
              Append(set.args, id))

\* updateContactByID that selects the contact whatever the UPDATE has affected
updateContactByIDOutcomeAlwaysSelects(table, req, strict) ==
    LET id == req.id
        bound == BindJSON(req.body)
        set == UpdateSet(bound.contact)
        stmt == UpdateStatement(set, id)
        result == ExecUpdate(table, stmt, strict)
    IN  IF ~Atoi(id).ok
        THEN [table |-> table, done |-> TRUE,
              resp |-> Response(req, StatusNotFound, "invalid id parameter", <<>>, <<>>)]
        ELSE IF ~bound.ok
        THEN [table |-> table, done |-> TRUE,
              resp |-> Response(req, StatusBadRequest, "invalid JSON", <<>>, <<>>)]
        ELSE IF Len(set.args) = 0
        THEN [table |-> table, done |-> TRUE,
              resp |-> Response(req, StatusBadRequest, "no values to be updated", <<>>, <<>>)]
        ELSE IF result.err
        THEN [table |-> table, done |-> TRUE,
              resp |-> Response(req, StatusPanic, "", <<>>, <<stmt>>)]
        ELSE [table |-> result.table, done |-> FALSE,
              resp |-> Response(req, StatusOK, "", <<>>, <<stmt>>)]

\* updateContactByID that goes on to its SELECT when the UPDATE has failed
updateContactByIDOutcomeErrorIgnored(table, req, strict) ==
    LET id == req.id
        bound == BindJSON(req.body)
        set == UpdateSet(bound.contact)
        stmt == UpdateStatement(set, id)
        result == ExecUpdate(table, stmt, strict)
    IN  IF ~Atoi(id).ok
        THEN [table |-> table, done |-> TRUE,
              resp |-> Response(req, StatusNotFound, "invalid id parameter", <<>>, <<>>)]
        ELSE IF ~bound.ok
        THEN [table |-> table, done |-> TRUE,
              resp |-> Response(req, StatusBadRequest, "invalid JSON", <<>>, <<>>)]
        ELSE IF Len(set.args) = 0
        THEN [table |-> table, done |-> TRUE,
              resp |-> Response(req, StatusBadRequest, "no values to be updated", <<>>, <<>>)]
        ELSE IF result.err
        THEN [table |-> table, done |-> FALSE,
              resp |-> Response(req, StatusOK, "", <<>>, <<stmt>>)]
        ELSE IF result.rowsAffected = 0
        THEN [table |-> result.table, done |-> TRUE,
              resp |-> Response(req, StatusNotFound, "contact not found", <<>>, <<stmt>>)]
        ELSE [table |-> result.table, done |-> FALSE,
              resp |-> Response(req, StatusOK, "", <<>>, <<stmt>>)]

\* the first part of PUT /contacts/{id}, up to and with the UPDATE statement:
\* done is FALSE when the handler goes on to select the contact
updateContactByIDOutcome(table, req, strict) ==
    LET id == req.id
        bound == BindJSON(req.body)
        set == UpdateSet(bound.contact)
        stmt == UpdateStatement(set, id)
        result == ExecUpdate(table, stmt, strict)
    IN  IF ~Atoi(id).ok
        THEN [table |-> table, done |-> TRUE,
              resp |-> Response(req, StatusNotFound, "invalid id parameter", <<>>, <<>>)]
        ELSE IF ~bound.ok
        THEN [table |-> table, done |-> TRUE,
              resp |-> Response(req, StatusBadRequest, "invalid JSON", <<>>, <<>>)]
        ELSE IF Len(set.args) = 0
        THEN [table |-> table, done |-> TRUE,
              resp |-> Response(req, StatusBadRequest, "no values to be updated", <<>>, <<>>)]
        ELSE IF result.err
        THEN [table |-> table, done |-> TRUE,
              resp |-> Response(req, StatusPanic, "", <<>>, <<stmt>>)]
        ELSE IF result.rowsAffected = 0
        THEN [table |-> result.table, done |-> TRUE,
              resp |-> Response(req, StatusNotFound, "contact not found", <<>>, <<stmt>>)]
        ELSE [table |-> result.table, done |-> FALSE,
              resp |-> Response(req, StatusOK, "", <<>>, <<stmt>>)]

\* a second part that takes the first record of the result without looking at its
\* length: on an empty result the handler panics
updateContactSelectOutcomeUnchecked(table, req, stmts) ==
    LET stmt == Statement(selectWhereId, <<req.id>>)
        found == ExecSelectWhereId(table, req.id)
    IN  IF Len(found) = 0
        THEN Response(req, StatusPanic, "", <<>>, Append(stmts, stmt))
        ELSE Response(req, StatusOK, "", <<found[1]>>, Append(stmts, stmt))

\* the second part: the contact is selected again and returned
updateContactSelectOutcome(table, req, stmts) ==
    LET stmt == Statement(selectWhereId, <<req.id>>)
        found == ExecSelectWhereId(table, req.id)
    IN  IF Len(found) = 0
        THEN Response(req, StatusNotFound, "contact not found", <<>>, Append(stmts, stmt))
        ELSE Response(req, StatusOK, "", <<found[1]>>, Append(stmts, stmt))

updateContactByID(h, id, body) ==
    LET req == Request("PUT", id, body, NoQuery)
        out == updateContactByIDOutcome(contacts, req, sqlStrict)
    IN  /\ inflight[h].pc = "idle"
        /\ contacts' = out.table
        /\ posted' = Untouched(id)
        /\ IF out.done
           THEN resp' = out.resp /\ UNCHANGED inflight
           ELSE /\ inflight' = [inflight EXCEPT
                                  ![h] = [pc |-> "select", req |-> req, stmts |-> out.resp.stmts]]
                /\ UNCHANGED resp
        /\ UNCHANGED <<autoIncrement, deleted, sqlStrict>>

updateContactSelect(h) ==
    /\ inflight[h].pc = "select"
    /\ resp' = updateContactSelectOutcome(contacts, inflight[h].req, inflight[h].stmts)
    /\ inflight' = [inflight EXCEPT ![h] = Idle]
    /\ UNCHANGED <<contacts, autoIncrement, posted, deleted, sqlStrict>>

-----------------------------------------------------------------------------
(* The SELECT statements of findContacts, as the store evaluates them *)

\* the order of the characters of the model under the column collation
CharOrder ==
    <<"%", "+", "-", "0", "1", "2", "3", "4", "5", "6", "7", "8", "9", "_",
      "a", "b", "c", "d", "x">>

CharRank(c) == CHOOSE i \in 1..Len(CharOrder) : CharOrder[i] = c

RECURSIVE TextLeq(_, _)
TextLeq(a, b) ==
    IF a = <<>> THEN TRUE
    ELSE IF b = <<>> THEN FALSE
    ELSE IF Head(a) # Head(b) THEN CharRank(Head(a)) < CharRank(Head(b))
    ELSE TextLeq(Tail(a), Tail(b))

DateLeq(a, b) ==
    \/ a.y < b.y
    \/ a.y = b.y /\ a.m < b.m
    \/ a.y = b.y /\ a.m = b.m /\ a.d <= b.d

\* x LIKE pattern: % matches any text, _ any one character; NULL matches nothing
RECURSIVE LikeText(_, _)
LikeText(text, pattern) ==
    IF pattern = <<>> THEN text = <<>>
    ELSE IF Head(pattern) = "%"
    THEN \E k \in 0..Len(text) : LikeText(SubSeq(text, k + 1, Len(text)), Tail(pattern))
    ELSE /\ text # <<>>
         /\ Head(pattern) = "_" \/ Head(pattern) = Head(text)
         /\ LikeText(Tail(text), Tail(pattern))

Like(v, pattern) == v # NULL /\ LikeText(v[1], pattern)

\* MONTH(birthday) = ? and DAY(birthday) = ? with the Go ints bound
MonthIs(v, n) == v # NULL /\ ~n.neg /\ n.mag = Itoa(v[1].m)
DayIs(v, n) == v # NULL /\ ~n.neg /\ n.mag = Itoa(v[1].d)

\* the names of the columns and the direction keywords, as Go strings
idName == <<"i", "d">>
firstnameName == <<"f", "i", "r", "s", "t", "n", "a", "m", "e">>
lastnameName == <<"l", "a", "s", "t", "n", "a", "m", "e">>
phoneName == <<"p", "h", "o", "n", "e">>
birthdayName == <<"b", "i", "r", "t", "h", "d", "a", "y">>
ColumnNames == {idName, firstnameName, lastnameName, phoneName, birthdayName}

ASC == <<"A", "S", "C">>
DESC == <<"D", "E", "S", "C">>

\* the four WHERE clauses of findContacts
whereNamesAndBirthday ==
    "WHERE firstname LIKE ? AND lastname LIKE ? AND MONTH(birthday) = ? AND DAY(birthday) = ?"
whereNames == "WHERE firstname LIKE ? AND lastname LIKE ?"
whereBirthday == "WHERE MONTH(birthday) = ? AND DAY(birthday) = ?"
whereNone == ""

\* the SELECT text with the direction left to the default of ORDER BY
SelectStatementAscending(where, orderby, ascending, args) ==
    [sql |-> <<"SELECT * FROM contacts", where, "ORDER BY %s %s", "LIMIT ? OFFSET ?">>,
     subst |-> <<orderby, ASC>>, args |-> args]

\* fmt.Sprintf of the SELECT text: orderby and ascending are written into the text
SelectStatement(where, orderby, ascending, args) ==
    [sql |-> <<"SELECT * FROM contacts", where, "ORDER BY %s %s", "LIMIT ? OFFSET ?">>,
     subst |-> <<orderby, ascending>>, args |-> args]

\* the rows a WHERE clause keeps
Matches(table, id, where, args) ==
    CASE where = whereNamesAndBirthday ->
            /\ Like(table[id].firstname, args[1])
            /\ Like(table[id].lastname, args[2])
            /\ MonthIs(table[id].birthday, args[3])
            /\ DayIs(table[id].birthday, args[4])
      [] where = whereNames ->
            /\ Like(table[id].firstname, args[1])
            /\ Like(table[id].lastname, args[2])
      [] where = whereBirthday ->
            /\ MonthIs(table[id].birthday, args[1])
            /\ DayIs(table[id].birthday, args[2])
      [] OTHER -> TRUE

\* a <= b in the order of a column; NULL sorts before every value
ValueLeq(a, b, text) ==
    IF a = NULL THEN TRUE
    ELSE IF b = NULL THEN FALSE
    ELSE IF text THEN TextLeq(a[1], b[1])
    ELSE DateLeq(a[1], b[1])

ColumnLeq(table, column, i, k) ==
    CASE column = idName -> i <= k
      [] column = firstnameName -> ValueLeq(table[i].firstname, table[k].firstname, TRUE)
      [] column = lastnameName -> ValueLeq(table[i].lastname, table[k].lastname, TRUE)
      [] column = phoneName -> ValueLeq(table[i].phone, table[k].phone, TRUE)
      [] column = birthdayName -> ValueLeq(table[i].birthday, table[k].birthday, FALSE)

\* ORDER BY column direction: every order of the ids that the clause allows (rows
\* with equal keys come in any order)
Orderings(table, ids, column, direction) ==
    {p \in [1..Cardinality(ids) -> ids] :
        /\ \A i, k \in 1..Cardinality(ids) : i # k => p[i] # p[k]
        /\ \A i, k \in 1..Cardinality(ids) :
              i < k => IF direction = DESC
                       THEN ColumnLeq(table, column, p[k], p[i])
                       ELSE ColumnLeq(table, column, p[i], p[k])}

\* a SELECT that skips the offset among the rows the limit has kept
ExecSelectOffsetWithinLimit(table, stmt) ==
    LET where == stmt.sql[2]
        column == stmt.subst[1]
        direction == stmt.subst[2]
        n == Len(stmt.args)
        limit == Atoi(stmt.args[n - 1])
        offset == Atoi(stmt.args[n])
        ids == {id \in DOMAIN table : Matches(table, id, where, stmt.args)}
        to == Clamp(limit.mag, Cardinality(ids))
        from == Min(Clamp(offset.mag, Cardinality(ids)), to)
    IN  IF column \notin ColumnNames \/ direction \notin {ASC, DESC}
           \/ ~limit.ok \/ limit.neg \/ ~offset.ok \/ offset.neg
        THEN {[err |-> TRUE, rows |-> <<>>]}
        ELSE {[err |-> FALSE,
               rows |-> [i \in 1..(to - from) |->
                            ScanContact(p[from + i], table[p[from + i]])]] :
                 p \in Orderings(table, ids, column, direction)}

\* db.Select of a SELECT statement of findContacts: the results the store can give.
\* A text after ORDER BY that is no column and direction is an SQL error.
ExecSelect(table, stmt) ==
    LET where == stmt.sql[2]
        column == stmt.subst[1]
        direction == stmt.subst[2]
        n == Len(stmt.args)
        limit == Atoi(stmt.args[n - 1])
        offset == Atoi(stmt.args[n])
        ids == {id \in DOMAIN table : Matches(table, id, where, stmt.args)}
        from == Clamp(offset.mag, Cardinality(ids))
        to == Min(from + Clamp(limit.mag, Cardinality(ids)), Cardinality(ids))
    IN  IF column \notin ColumnNames \/ direction \notin {ASC, DESC}
           \/ ~limit.ok \/ limit.neg \/ ~offset.ok \/ offset.neg
        THEN {[err |-> TRUE, rows |-> <<>>]}
        ELSE {[err |-> FALSE,
               rows |-> [i \in 1..(to - from) |->
                            ScanContact(p[from + i], table[p[from + i]])]] :
                 p \in Orderings(table, ids, column, direction)}

-----------------------------------------------------------------------------
(* findContacts and the parsers of its URL parameters *)

\* c.Query(key): the value of the parameter, "" when the URL does not have it
Query(param) == IF param = Absent THEN <<>> ELSE param[1]

\* a Go int, as Atoi gives it
GoInt(n) == [neg |-> n.neg, mag |-> n.mag]
Zero == [neg |-> FALSE, mag |-> <<"0">>]

\* strings.Cut(s, "-")
Cut(s) ==
    IF \E i \in 1..Len(s) : s[i] = "-"
    THEN LET at == CHOOSE i \in 1..Len(s) : s[i] = "-" /\ \A k \in 1..(i - 1) : s[k] # "-"
         IN  [before |-> SubSeq(s, 1, at - 1), after |-> SubSeq(s, at + 1, Len(s)),
              found |-> TRUE]
    ELSE [before |-> s, after |-> <<>>, found |-> FALSE]

allowedOrderby == <<idName, firstnameName, lastnameName, phoneName, birthdayName>>
allowedAscending == <<<<"t", "r", "u", "e">>, <<"f", "a", "l", "s", "e">>>>

contains(slice, str) == \E i \in 1..Len(slice) : slice[i] = str

parseNameAndBirthday(query) ==
    LET birthday == Query(query.birthday)
        cut == Cut(birthday)
        month == Atoi(cut.before)
        day == Atoi(cut.after)
        failed == [firstname |-> <<>>, lastname |-> <<>>, bday |-> Zero, bmonth |-> Zero,
                   success |-> FALSE, message |-> "invalid birthday URL parameter"]
    IN  IF birthday # <<>> /\ (~cut.found \/ ~month.ok \/ ~day.ok)
        THEN failed
        ELSE [firstname |-> Query(query.firstname), lastname |-> Query(query.lastname),
              bday |-> IF birthday # <<>> THEN GoInt(day) ELSE Zero,
              bmonth |-> IF birthday # <<>> THEN GoInt(month) ELSE Zero,
              success |-> TRUE, message |-> ""]

\* parseLimitAndOffset with the limit compared to 0 like the offset
parseLimitAndOffsetFromZero(query) ==
    LET limit == Query(query.limit)
        offset == Query(query.offset)
        limitAsInt == Atoi(limit)
        offsetAsInt == Atoi(offset)
    IN  IF limit # <<>> /\ (~limitAsInt.ok \/ limitAsInt.neg)
        THEN [limit |-> <<>>, offset |-> <<>>, success |-> FALSE,
              message |-> "invalid limit parameter"]
        ELSE IF offset # <<>> /\ (~offsetAsInt.ok \/ offsetAsInt.neg)
        THEN [limit |-> <<>>, offset |-> <<>>, success |-> FALSE,
              message |-> "invalid offset parameter"]
        ELSE [limit |-> IF limit # <<>> THEN limit ELSE maxInt,
              offset |-> IF offset # <<>> THEN offset ELSE <<"0">>,
              success |-> TRUE, message |-> ""]

parseLimitAndOffset(query) ==
    LET limit == Query(query.limit)
        offset == Query(query.offset)
        limitAsInt == Atoi(limit)
        offsetAsInt == Atoi(offset)
    IN  IF limit # <<>> /\ (~limitAsInt.ok \/ limitAsInt.neg \/ limitAsInt.mag = <<"0">>)
        THEN [limit |-> <<>>, offset |-> <<>>, success |-> FALSE,
              message |-> "invalid limit parameter"]
        ELSE IF offset # <<>> /\ (~offsetAsInt.ok \/ offsetAsInt.neg)
        THEN [limit |-> <<>>, offset |-> <<>>, success |-> FALSE,
              message |-> "invalid offset parameter"]
        ELSE [limit |-> IF limit # <<>> THEN limit ELSE maxInt,
              offset |-> IF offset # <<>> THEN offset ELSE <<"0">>,
              success |-> TRUE, message |-> ""]

\* parseOrderbyAndAscending without the check of orderby against the whitelist
parseOrderbyAndAscendingAnyColumn(query) ==
    LET orderby == IF Query(query.orderby) = <<>> THEN idName ELSE Query(query.orderby)
        ascendingAsString == IF Query(query.ascending) = <<>> THEN <<"t", "r", "u", "e">>
                             ELSE Query(query.ascending)
    IN  IF ~contains(allowedAscending, ascendingAsString)
        THEN [orderby |-> orderby, ascending |-> <<>>, success |-> FALSE,
              message |-> "invalid ascending parameter"]
        ELSE [orderby |-> orderby,
              ascending |-> IF ascendingAsString = <<"t", "r", "u", "e">> THEN ASC ELSE DESC,
              success |-> TRUE, message |-> ""]

\* parseOrderbyAndAscending without the check of ascending against its two values
parseOrderbyAndAscendingAnyDirection(query) ==
    LET orderby == IF Query(query.orderby) = <<>> THEN idName ELSE Query(query.orderby)
        ascendingAsString == IF Query(query.ascending) = <<>> THEN <<"t", "r", "u", "e">>
                             ELSE Query(query.ascending)
    IN  IF ~contains(allowedOrderby, orderby)
        THEN [orderby |-> <<>>, ascending |-> <<>>, success |-> FALSE,
              message |-> "invalid orderby parameter"]
        ELSE [orderby |-> orderby,
              ascending |-> IF ascendingAsString = <<"t", "r", "u", "e">> THEN ASC ELSE DESC,
              success |-> TRUE, message |-> ""]

parseOrderbyAndAscending(query) ==
    LET orderby == IF Query(query.orderby) = <<>> THEN idName ELSE Query(query.orderby)
        ascendingAsString == IF Query(query.ascending) = <<>> THEN <<"t", "r", "u", "e">>
                             ELSE Query(query.ascending)
    IN  IF ~contains(allowedOrderby, orderby)
        THEN [orderby |-> <<>>, ascending |-> <<>>, success |-> FALSE,
              message |-> "invalid orderby parameter"]
        ELSE IF ~contains(allowedAscending, ascendingAsString)
        THEN [orderby |-> orderby, ascending |-> <<>>, success |-> FALSE,
              message |-> "invalid ascending parameter"]
        ELSE [orderby |-> orderby,
              ascending |-> IF ascendingAsString = <<"t", "r", "u", "e">> THEN ASC ELSE DESC,
              success |-> TRUE, message |-> ""]

\* findContacts with the first name written into the text of the names statement
\* instead of bound to it
findContactsStatementFormatted(nb, lo, oa) ==
    LET first == nb.firstname
        last == nb.lastname
        names == first # <<>> \/ last # <<>>
        bdays == nb.bmonth # Zero \/ nb.bday # Zero
    IN  IF names /\ bdays
        THEN SelectStatement(whereNamesAndBirthday, oa.orderby, oa.ascending,
                 <<first \o <<"%">>, last \o <<"%">>, nb.bmonth, nb.bday, lo.limit, lo.offset>>)
        ELSE IF names /\ nb.bmonth = Zero /\ nb.bday = Zero
        THEN [sql |-> <<"SELECT * FROM contacts", whereNames, "ORDER BY %s %s",
                        "LIMIT ? OFFSET ?">>,
              subst |-> <<oa.orderby, oa.ascending, first \o <<"%">>>>,
              args |-> <<first \o <<"%">>, last \o <<"%">>, lo.limit, lo.offset>>]
        ELSE IF first = <<>> /\ last = <<>> /\ bdays
        THEN SelectStatement(whereBirthday, oa.orderby, oa.ascending,
                 <<nb.bmonth, nb.bday, lo.limit, lo.offset>>)
        ELSE SelectStatement(whereNone, oa.orderby, oa.ascending, <<lo.limit, lo.offset>>)

\* the SELECT statement findContacts sends for the parsed parameters
findContactsStatement(nb, lo, oa) ==
    LET first == nb.firstname
        last == nb.lastname
        names == first # <<>> \/ last # <<>>
        bdays == nb.bmonth # Zero \/ nb.bday # Zero
    IN  IF names /\ bdays
        THEN SelectStatement(whereNamesAndBirthday, oa.orderby, oa.ascending,
                 <<first \o <<"%">>, last \o <<"%">>, nb.bmonth, nb.bday, lo.limit, lo.offset>>)
        ELSE IF names /\ nb.bmonth = Zero /\ nb.bday = Zero
        THEN SelectStatement(whereNames, oa.orderby, oa.ascending,
                 <<first \o <<"%">>, last \o <<"%">>, lo.limit, lo.offset>>)
        ELSE IF first = <<>> /\ last = <<>> /\ bdays
        THEN SelectStatement(whereBirthday, oa.orderby, oa.ascending,
                 <<nb.bmonth, nb.bday, lo.limit, lo.offset>>)
        ELSE SelectStatement(whereNone, oa.orderby, oa.ascending, <<lo.limit, lo.offset>>)

\* findContacts with orderby and ascending checked before limit and offset
findContactsOutcomesOrderFirst(table, req) ==
    LET nb == parseNameAndBirthday(req.query)
        lo == parseLimitAndOffset(req.query)
        oa == parseOrderbyAndAscending(req.query)
        stmt == findContactsStatement(nb, lo, oa)
    IN  IF ~nb.success
        THEN {Response(req, StatusBadRequest, nb.message, <<>>, <<>>)}
        ELSE IF ~oa.success
        THEN {Response(req, StatusBadRequest, oa.message, <<>>, <<>>)}
        ELSE IF ~lo.success
        THEN {Response(req, StatusBadRequest, lo.message, <<>>, <<>>)}
        ELSE {IF result.err
              THEN Response(req, StatusPanic, "", <<>>, <<stmt>>)
              ELSE IF Len(result.rows) = 0
              THEN Response(req, StatusNotFound, "contact not found", <<>>, <<stmt>>)
              ELSE Response(req, StatusOK, "", result.rows, <<stmt>>) :
                 result \in ExecSelect(table, stmt)}

\* findContacts without the test for an empty result: 200 with whatever was selected
findContactsOutcomesAlways200(table, req) ==
    LET nb == parseNameAndBirthday(req.query)
        lo == parseLimitAndOffset(req.query)
        oa == parseOrderbyAndAscending(req.query)
        stmt == findContactsStatement(nb, lo, oa)
    IN  IF ~nb.success
        THEN {Response(req, StatusBadRequest, nb.message, <<>>, <<>>)}
        ELSE IF ~lo.success
        THEN {Response(req, StatusBadRequest, lo.message, <<>>, <<>>)}
        ELSE IF ~oa.success
        THEN {Response(req, StatusBadRequest, oa.message, <<>>, <<>>)}
        ELSE {IF result.err
              THEN Response(req, StatusPanic, "", <<>>, <<stmt>>)
              ELSE Response(req, StatusOK, "", result.rows, <<stmt>>) :
                 result \in ExecSelect(table, stmt)}

\* the responses GET /contacts can give (one per result the store can give)
findContactsOutcomes(table, req) ==
    LET nb == parseNameAndBirthday(req.query)
        lo == parseLimitAndOffset(req.query)
        oa == parseOrderbyAndAscending(req.query)
        stmt == findContactsStatement(nb, lo, oa)
    IN  IF ~nb.success
        THEN {Response(req, StatusBadRequest, nb.message, <<>>, <<>>)}
        ELSE IF ~lo.success
        THEN {Response(req, StatusBadRequest, lo.message, <<>>, <<>>)}
        ELSE IF ~oa.success
        THEN {Response(req, StatusBadRequest, oa.message, <<>>, <<>>)}
        ELSE {IF result.err
              THEN Response(req, StatusPanic, "", <<>>, <<stmt>>)
              ELSE IF Len(result.rows) = 0
              THEN Response(req, StatusNotFound, "contact not found", <<>>, <<stmt>>)
              ELSE Response(req, StatusOK, "", result.rows, <<stmt>>) :
                 result \in ExecSelect(table, stmt)}

findContacts(query) ==
    /\ resp' \in findContactsOutcomes(contacts, Request("LIST", <<>>, Omitted, query))
    /\ UNCHANGED <<contacts, autoIncrement, inflight, posted, deleted, sqlStrict>>

-----------------------------------------------------------------------------
(* The requests of the clients *)

Text(c) == <<c>>

Day1 == [y |-> 1969, m |-> 3, d |-> 2, h |-> 0]
Day1Morning == [y |-> 1969, m |-> 3, d |-> 2, h |-> 10]
Day2 == [y |-> 1960, m |-> 4, d |-> 13, h |-> 0]

\* path ids: stored and not stored numbers, signed numbers, no numbers
PathIds ==
    {<<"1">>, <<"2">>, <<"3">>, <<"9">>, <<"+", "1">>, <<"-", "1">>, <<"a", "b", "c">>,
     <<"1", "x">>, <<"-">>}

PostBodies ==
    {Malformed,
     JsonObject(Omitted, Omitted, Omitted, Omitted, Omitted),
     JsonObject(JsonNumber(2), JsonString(Text("a")), Omitted, Omitted, Omitted),
     JsonObject(Omitted, JsonNumber(5), Omitted, Omitted, Omitted),
     JsonObject(Omitted, Omitted, JsonString(LongText), Omitted, Omitted)}

PutBodies ==
    {Malformed,
     JsonObject(Omitted, Omitted, Omitted, Omitted, Omitted),
     JsonObject(JsonNumber(1), JsonNull, Omitted, JsonNull, Omitted),
     JsonObject(Omitted, JsonString(Text("a")), Omitted, Omitted, Omitted),
     JsonObject(JsonNumber(1), JsonString(Text("b")), Omitted, Omitted, Omitted)}

-----------------------------------------------------------------------------
(* The service: requests by id *)

NoResponse == Response(NoRequest, 0, "", <<>>, <<>>)

Init ==
    /\ contacts = <<>>
    /\ autoIncrement = 1
    /\ inflight = [h \in Handlers |-> Idle]
    /\ resp = NoResponse
    /\ posted = <<>>
    /\ deleted = {}
    /\ sqlStrict = TRUE

Create == autoIncrement <= MaxContacts /\ \E body \in PostBodies : createContact(body)
Find == \E id \in PathIds : findContactByID(id)
Update == \E id \in PathIds, body \in PutBodies : updateContactByID(1, id, body)
UpdateSelect == updateContactSelect(1)
Delete == \E id \in PathIds : deleteContactByID(id)

Next == Create \/ Find \/ Update \/ UpdateSelect \/ Delete

Spec == Init /\ [][Next]_vars

-----------------------------------------------------------------------------
(* Properties of the requests by id *)

Fields == {"firstname", "lastname", "phone", "birthday"}

\* the members of a JSON body that carry a value
Present(body) ==
    IF body.j # "object" THEN {} ELSE {f \in Fields : body[f].j \notin {"omitted", "null"}}

IsObject(body) == body.j = "object"

\* the path ids of the model, by what they are
IntegerIds == {<<"1">>, <<"2">>, <<"3">>, <<"9">>, <<"+", "1">>, <<"-", "1">>}
NegativeIds == {<<"-", "1">>}
NonNegativeIds == IntegerIds \ NegativeIds

Stored(id) == Addressed(id) \cap DOMAIN contacts # {}

\* C3 as the claim states it: a PUT whose body is a JSON object with no field
\* present is answered 400 for every path id.
C3_EmptyUpdateAlways400 ==
    (resp.req.op = "PUT" /\ IsObject(resp.req.body) /\ Present(resp.req.body) = {})
        => resp.status = StatusBadRequest

\* C3 (amended): a PUT whose body is a JSON object with no field present is
\* answered 400 "no values to be updated" for every numeric path id, stored or
\* not, and 404 "invalid id parameter" for a path id that is no number; in both
\* cases no statement is sent to the store.
C3_EmptyUpdate ==
    (resp.req.op = "PUT" /\ IsObject(resp.req.body) /\ Present(resp.req.body) = {})
        => /\ resp.stmts = <<>>
           /\ IF resp.req.id \in IntegerIds
              THEN resp.status = StatusBadRequest /\ resp.message = "no values to be updated"
              ELSE resp.status = StatusNotFound /\ resp.message = "invalid id parameter"

C3_Witness ==
    /\ resp.req.op = "PUT" /\ IsObject(resp.req.body) /\ Present(resp.req.body) = {}
    /\ resp.req.body.firstname = JsonNull
    /\ Stored(resp.req.id)
    /\ resp.status = StatusBadRequest

\* C4: once a DELETE of an id was answered 200, every GET of that id is answered
\* 404, whatever requests were handled in between.
C4_DeletedStaysGone ==
    /\ deleted \cap DOMAIN contacts = {}
    /\ (resp.req.op = "GET" /\ Addressed(resp.req.id) \cap deleted # {})
          => resp.status = StatusNotFound

\* a GET of a deleted id after a later POST has been stored
C4_Witness ==
    /\ resp.req.op = "GET" /\ Addressed(resp.req.id) \cap deleted # {}
    /\ \E id \in DOMAIN contacts : \A gone \in deleted : gone < id
    /\ resp.status = StatusNotFound

\* C5 as the claim states it: a PUT with a numeric id and a field present is
\* answered 404 exactly when no contact with that id is stored (the store of this
\* state is the store the response was computed from).
C5_NotFoundIffNotStored ==
    (resp.req.op = "PUT" /\ resp.req.id \in IntegerIds /\ Present(resp.req.body) # {})
        => (resp.status = StatusNotFound <=> ~Stored(resp.req.id))

\* C6 as the claim states it: a path id that is no non-negative integer is
\* answered 404 "invalid id parameter" by GET, PUT (with a body that has a field)
\* and DELETE.
C6_Validated(op, body) ==
    op \in {"GET", "DELETE"} \/ (op = "PUT" /\ Present(body) # {})

C6_NotNonNegativeIsInvalid ==
    (C6_Validated(resp.req.op, resp.req.body) /\ resp.req.id \notin NonNegativeIds)
        => resp.status = StatusNotFound /\ resp.message = "invalid id parameter"

\* C6 (amended): a path id that is no integer at all (letters, a bare sign) fails
\* the validation: 404 "invalid id parameter", and no statement is sent. A negative
\* number passes the validation: the statement is sent, finds no row, and the
\* answer is 404 "contact not found".
C6_InvalidIds ==
    C6_Validated(resp.req.op, resp.req.body)
        => /\ resp.req.id \notin IntegerIds
                => /\ resp.status = StatusNotFound
                   /\ resp.message = "invalid id parameter"
                   /\ resp.stmts = <<>>
           /\ resp.req.id \in NegativeIds
                => /\ resp.status = StatusNotFound
                   /\ resp.message = "contact not found"
                   /\ Len(resp.stmts) = 1

C6_Witness ==
    /\ resp.req.op = "DELETE"
    /\ resp.req.id = <<"a", "b", "c">>
    /\ resp.status = StatusNotFound
    /\ contacts # <<>>

-----------------------------------------------------------------------------
(* The service: one contact and every combination of its fields *)

\* the number of rows inserted while the field values vary
MaxFieldContacts == 1

FieldIds == {Itoa(i) : i \in 1..MaxFieldContacts}

Member(present, value) == IF present THEN value ELSE Omitted

FieldPostBodies ==
    {JsonObject(Omitted,
                Member(first, JsonString(Text("a"))), Member(last, JsonString(Text("c"))),
                Member(phone, JsonString(Text("1"))), Member(bday, JsonTime(Day1))) :
        first \in BOOLEAN, last \in BOOLEAN, phone \in BOOLEAN, bday \in BOOLEAN}
    \cup {JsonObject(Omitted, Omitted, Omitted, Omitted, JsonTime(Day1Morning)),
          JsonObject(Omitted, JsonString(LongText), Omitted, Omitted, Omitted)}

FieldPutBodies ==
    {JsonObject(Omitted, JsonString(Text("b")), Omitted, Omitted, Omitted),
     JsonObject(Omitted, JsonString(LongText), Omitted, Omitted, Omitted),
     JsonObject(Omitted, Omitted, JsonString(Text("c")), Omitted, Omitted),
     JsonObject(Omitted, Omitted, Omitted, JsonString(Text("1")), Omitted),
     JsonObject(Omitted, Omitted, Omitted, Omitted, JsonTime(Day1)),
     JsonObject(Omitted, Omitted, Omitted, Omitted, JsonTime(Day1Morning))}

InitFields ==
    /\ contacts = <<>>
    /\ autoIncrement = 1
    /\ inflight = [h \in Handlers |-> Idle]
    /\ resp = NoResponse
    /\ posted = <<>>
    /\ deleted = {}
    /\ sqlStrict \in BOOLEAN

CreateFields ==
    autoIncrement <= MaxFieldContacts /\ \E body \in FieldPostBodies : createContact(body)
FindFields == \E id \in FieldIds : findContactByID(id)
UpdateFields == \E id \in FieldIds, body \in FieldPutBodies : updateContactByID(1, id, body)
DeleteFields == \E id \in FieldIds : deleteContactByID(id)

NextFields == CreateFields \/ FindFields \/ UpdateFields \/ UpdateSelect \/ DeleteFields

SpecFields == InitFields /\ [][NextFields]_vars

-----------------------------------------------------------------------------
(* Properties of the fields *)

\* the field of a contact in a response, by the name of its JSON member
FieldOf(contact, f) ==
    CASE f = "firstname" -> contact.FirstName [] f = "lastname" -> contact.LastName
      [] f = "phone" -> contact.Phone [] f = "birthday" -> contact.Birthday

\* what a response shows for a member of a request body: its value, or nothing
Shown(member) == IF member.j \in {"omitted", "null"} THEN Nil ELSE <<member.v>>

\* a member the column stores as it is: a text of at most 50 characters, a
\* timestamp at midnight UTC
StoredAsIs(member) ==
    CASE member.j = "string" -> Len(member.v) <= 50
      [] member.j = "time" -> member.v.h = 0
      [] OTHER -> TRUE

AllStoredAsIs(body) == \A f \in Fields : StoredAsIs(body[f])

\* the contact GET /contacts/{id} answers with on a table (<<>> when it has none)
Get(table, id) ==
    findContactByIDOutcome(table, Request("GET", id, Omitted, NoQuery)).body

PutOfStep(before, after, respBefore, respAfter) ==
    IF before.pc = "idle" /\ after.pc = "select" THEN after.req
    ELSE IF before = after /\ respAfter # respBefore /\ respAfter.req.op = "PUT"
    THEN respAfter.req
    ELSE NoRequest

SingleField(body) == IsObject(body) /\ Cardinality(Present(body)) = 1

\* the one field of the body holds the supplied value after the step, and the id
\* and the other fields are as before it
C2_Holds(req) ==
    LET was == Get(contacts, req.id)
        is == Get(contacts', req.id)
    IN  /\ Len(is) = 1
        /\ is[1].Id = was[1].Id
        /\ \A f \in Fields :
              FieldOf(is[1], f) = IF f \in Present(req.body) THEN Shown(req.body[f])
                                  ELSE FieldOf(was[1], f)

\* C2 as the claim states it: a PUT on a stored contact with exactly one field
\* present leaves that field with the supplied value and the id and the other
\* fields as they were.
C2_SingleFieldAnyValue ==
    [][LET req == PutOfStep(inflight[1], inflight'[1], resp, resp')
       IN  (req.op = "PUT" /\ SingleField(req.body) /\ Len(Get(contacts, req.id)) = 1)
              => C2_Holds(req)]_vars

\* C2 (amended): the same, for a supplied value the column stores as it is: a text
\* of at most 50 characters, a birthday at midnight UTC.
C2_SingleField ==
    [][LET req == PutOfStep(inflight[1], inflight'[1], resp, resp')
       IN  (req.op = "PUT" /\ SingleField(req.body) /\ AllStoredAsIs(req.body)
              /\ Len(Get(contacts, req.id)) = 1)
              => C2_Holds(req)]_vars

\* a PUT of a birthday alone, on a contact with names and a phone, has run its
\* UPDATE
C2_Witness ==
    /\ inflight[1].pc = "select"
    /\ Present(inflight[1].req.body) = {"birthday"}
    /\ \E id \in Addressed(inflight[1].req.id) \cap DOMAIN contacts :
          /\ contacts[id].firstname # NULL
          /\ contacts[id].lastname # NULL
          /\ contacts[id].phone # NULL
          /\ contacts[id].birthday = <<Day1>>

-----------------------------------------------------------------------------
(* The service: the list of contacts and its URL parameters *)

\* a URL parameter with a value (the value may be the empty string)
Given(value) == <<value>>

UnderscoredFirst == <<"f", "i", "r", "s", "t", "_", "n", "a", "m", "e">>
UnderscoredLast == <<"l", "a", "s", "t", "_", "n", "a", "m", "e">>
IdUpper == <<"I", "D">>
IdDescending == <<"i", "d", " ", "d", "e", "s", "c">>
TrueText == <<"t", "r", "u", "e">>
FalseText == <<"f", "a", "l", "s", "e">>
TrueUpper == <<"T", "R", "U", "E">>
FalseCapital == <<"F", "a", "l", "s", "e">>
One == <<"1">>
Two == <<"2">>
PlusOne == <<"+", "1">>
MinusOne == <<"-", "1">>
NoNumber == <<"x">>
\* the value after the largest int
Overflow == <<"9", "2", "2", "3", "3", "7", "2", "0", "3", "6", "8", "5", "4", "7", "7", "5", "8", "0", "8">>

FindPostBodies ==
    {JsonObject(Omitted, JsonString(Text("a")), JsonString(Text("c")),
                JsonString(<<"9">>), JsonTime(Day2)),
     JsonObject(Omitted, JsonString(Text("b")), JsonString(Text("c")),
                JsonString(<<"1", "0">>), JsonTime(Day1)),
     JsonObject(Omitted, Omitted, Omitted, Omitted, Omitted)}

OrderbyValues ==
    {Absent, Given(<<>>), Given(idName), Given(firstnameName), Given(lastnameName),
     Given(phoneName), Given(birthdayName), Given(UnderscoredFirst), Given(UnderscoredLast),
     Given(IdUpper), Given(IdDescending)}

AscendingValues ==
    {Absent, Given(<<>>), Given(TrueText), Given(FalseText), Given(TrueUpper),
     Given(FalseCapital), Given(One)}

LimitValues ==
    {Absent, Given(<<>>), Given(One), Given(Two), Given(PlusOne), Given(<<"0">>),
     Given(MinusOne), Given(NoNumber), Given(maxInt), Given(Overflow)}

OffsetValues ==
    {Absent, Given(<<>>), Given(<<"0">>), Given(One), Given(PlusOne), Given(MinusOne),
     Given(NoNumber)}

\* the filters: none, a first name, a last name, a day of the year, names and a day,
\* and a birthday that is no month-day
Filters ==
    {[firstname |-> Absent, lastname |-> Absent, birthday |-> Absent],
     [firstname |-> Given(Text("a")), lastname |-> Absent, birthday |-> Absent],
     [firstname |-> Absent, lastname |-> Given(Text("c")), birthday |-> Absent],
     [firstname |-> Absent, lastname |-> Absent, birthday |-> Given(<<"4", "-", "1", "3">>)],
     [firstname |-> Given(<<>>), lastname |-> Given(Text("c")),
      birthday |-> Given(<<"3", "-", "2">>)],
     [firstname |-> Absent, lastname |-> Absent, birthday |-> Given(<<"4", "1", "3">>)]}

QueryOf(filter, limit, offset, orderby, ascending) ==
    [firstname |-> filter.firstname, lastname |-> filter.lastname,
     birthday |-> filter.birthday, limit |-> limit, offset |-> offset,
     orderby |-> orderby, ascending |-> ascending]

NoFilter == [firstname |-> Absent, lastname |-> Absent, birthday |-> Absent]

\* the queries of the clients: every order and direction, every limit and offset,
\* every filter with the orders and directions of the whitelist, and the second
\* page of the list by phone
Queries ==
    {QueryOf(NoFilter, Absent, Absent, orderby, ascending) :
        orderby \in OrderbyValues, ascending \in AscendingValues}
    \cup {QueryOf(NoFilter, limit, offset, Absent, Absent) :
            limit \in LimitValues, offset \in OffsetValues}
    \cup {QueryOf(filter, limit, Absent, orderby, ascending) :
            filter \in Filters, limit \in {Absent, Given(One)},
            orderby \in {Given(idName), Given(firstnameName), Given(phoneName),
                         Given(birthdayName)},
            ascending \in {Absent, Given(FalseText)}}
    \cup {QueryOf(NoFilter, Given(One), Given(One), Given(phoneName), ascending) :
            ascending \in {Absent, Given(FalseText)}}

CreateFind == autoIncrement <= MaxContacts /\ \E body \in FindPostBodies : createContact(body)
FindContacts == \E query \in Queries : findContacts(query)

NextFind == CreateFind \/ FindContacts

SpecFind == Init /\ [][NextFind]_vars


-----------------------------------------------------------------------------
(* Properties of the list of contacts *)

IsList == resp.req.op = "LIST"
Sent == Len(resp.stmts) = 1

\* the parameter values of the model, by what they are
MonthDayBirthdays == {<<"4", "-", "1", "3">>, <<"3", "-", "2">>}
IntegersFromOne == {One, Two, PlusOne, maxInt}
IntegersFromZero == IntegersFromOne \cup {<<"0">>}
ColumnsOfTheCode == {idName, firstnameName, lastnameName, phoneName, birthdayName}
ColumnsOfTheClaim == {idName, UnderscoredFirst, UnderscoredLast, phoneName, birthdayName}

\* a parameter is absent, or present and empty
Unset(param) == param = Absent \/ param = Given(<<>>)

\* the parameters that are parsed before orderby are valid / those before ascending
BirthdayPasses(query) == Unset(query.birthday) \/ query.birthday[1] \in MonthDayBirthdays
PagingPasses(query) ==
    /\ Unset(query.limit) \/ query.limit[1] \in IntegersFromOne
    /\ Unset(query.offset) \/ query.offset[1] \in IntegersFromZero
OrderbyPasses(query) == Unset(query.orderby) \/ query.orderby[1] \in ColumnsOfTheCode
AscendingPasses(query) == Unset(query.ascending) \/ query.ascending[1] \in {TrueText, FalseText}

\* C7 as the claim states it: orderby is accepted exactly when it is absent (the
\* list is then sorted by id) or one of id, first_name, last_name, phone, birthday;
\* every other value is answered 400 and is not in the SQL text.
C7_OrderbyUnderscored ==
    IsList =>
       IF resp.req.query.orderby = Absent
       THEN resp.message # "invalid orderby parameter" /\ (Sent => resp.stmts[1].subst[1] = idName)
       ELSE IF resp.req.query.orderby[1] \in ColumnsOfTheClaim
       THEN resp.message # "invalid orderby parameter"
              /\ (Sent => resp.stmts[1].subst[1] = resp.req.query.orderby[1])
       ELSE resp.status = StatusBadRequest /\ ~Sent

\* C7 (amended): orderby is accepted exactly when it is absent or empty (the list
\* is then sorted by id) or one of id, firstname, lastname, phone, birthday; every
\* other value is answered 400, with "invalid orderby parameter" when the
\* parameters parsed before it are valid, and is not in the SQL text: the text
\* after ORDER BY is always one of the five column names.
C7_OrderbyWhitelist ==
    IsList =>
       /\ Sent => resp.stmts[1].subst[1] \in ColumnsOfTheCode
       /\ IF Unset(resp.req.query.orderby)
          THEN resp.message # "invalid orderby parameter"
                 /\ (Sent => resp.stmts[1].subst[1] = idName)
          ELSE IF resp.req.query.orderby[1] \in ColumnsOfTheCode
          THEN resp.message # "invalid orderby parameter"
                 /\ (Sent => resp.stmts[1].subst[1] = resp.req.query.orderby[1])
          ELSE /\ resp.status = StatusBadRequest /\ ~Sent
               /\ (BirthdayPasses(resp.req.query) /\ PagingPasses(resp.req.query))
                     => resp.message = "invalid orderby parameter"
       /\ (BirthdayPasses(resp.req.query) /\ PagingPasses(resp.req.query)
             /\ OrderbyPasses(resp.req.query) /\ AscendingPasses(resp.req.query)) => Sent

\* orderby=lastname has been accepted and is in the SQL text of a list of two rows
C7_Witness ==
    /\ IsList /\ Sent /\ resp.status = StatusOK
    /\ resp.req.query.orderby = Given(lastnameName)
    /\ resp.stmts[1].subst[1] = lastnameName
    /\ Len(resp.body) = 2

\* the key of a row of a response in a column, and the order of two keys: ids by
\* number, birthdays by date, texts character by character; no value before every
\* value
KeyOf(contact, column) ==
    CASE column = idName -> contact.Id
      [] column = firstnameName -> contact.FirstName
      [] column = lastnameName -> contact.LastName
      [] column = phoneName -> contact.Phone
      [] column = birthdayName -> contact.Birthday

KeyLeq(a, b, column) ==
    IF column = idName THEN a <= b
    ELSE IF a = Nil THEN TRUE
    ELSE IF b = Nil THEN FALSE
    ELSE IF column = birthdayName THEN DateLeq(a[1], b[1])
    ELSE TextLeq(a[1], b[1])

Sorted(rows, column, descending) ==
    \A i, k \in 1..Len(rows) :
        i < k => IF descending
                 THEN KeyLeq(KeyOf(rows[k], column), KeyOf(rows[i], column), column)
                 ELSE KeyLeq(KeyOf(rows[i], column), KeyOf(rows[k], column), column)

\* C8: with orderby one of id, firstname, phone, birthday, ascending absent, true
\* or false, and the other parameters valid, the answer is 200 or, when no row is
\* selected, 404; with no filter and no paging on a store that has rows it is 200
\* with every row; and the rows of a 200 are sorted by the column, non-decreasing
\* when ascending is true or absent and non-increasing when it is false (in the
\* order of the column: texts as texts, a row without a value before the others).
C8_SortedByColumn ==
    (/\ IsList
     /\ resp.req.query.orderby \in {Given(idName), Given(firstnameName), Given(phoneName),
                                    Given(birthdayName)}
     /\ resp.req.query.ascending \in {Absent, Given(TrueText), Given(FalseText)}
     /\ BirthdayPasses(resp.req.query) /\ PagingPasses(resp.req.query))
        => /\ resp.status \in {StatusOK, StatusNotFound}
           /\ resp.status = StatusOK <=> Len(resp.body) > 0
           /\ \A i, k \in 1..Len(resp.body) : i # k => resp.body[i].Id # resp.body[k].Id
           /\ \A i \in 1..Len(resp.body) : resp.body[i].Id \in DOMAIN contacts
           /\ (/\ resp.req.query.firstname = Absent /\ resp.req.query.lastname = Absent
               /\ resp.req.query.birthday = Absent /\ resp.req.query.limit = Absent
               /\ resp.req.query.offset = Absent /\ contacts # <<>>)
                 => /\ resp.status = StatusOK
                    /\ Len(resp.body) = Cardinality(DOMAIN contacts)
           /\ Sorted(resp.body, resp.req.query.orderby[1],
                     resp.req.query.ascending = Given(FalseText))

\* the phones "9" and "10" listed by phone, descending: "9" comes first, though it
\* was stored last
C8_Witness ==
    /\ IsList /\ resp.status = StatusOK
    /\ resp.req.query.orderby = Given(phoneName)
    /\ resp.req.query.ascending = Given(FalseText)
    /\ Len(resp.body) = 2
    /\ resp.body[1].Phone = <<<<"9">>>> /\ resp.body[2].Phone = <<<<"1", "0">>>>
    /\ resp.body[1].Id > resp.body[2].Id

\* C9 as the claim states it: ascending absent or "true" gives ASC, "false" gives
\* DESC, and every other string is answered 400.
C9_OtherStrings400 ==
    IsList =>
       IF resp.req.query.ascending \in {Absent, Given(TrueText)}
       THEN resp.message # "invalid ascending parameter"
              /\ (Sent => resp.stmts[1].subst[2] = ASC)
       ELSE IF resp.req.query.ascending = Given(FalseText)
       THEN resp.message # "invalid ascending parameter"
              /\ (Sent => resp.stmts[1].subst[2] = DESC)
       ELSE resp.status = StatusBadRequest /\ ~Sent

\* C9 (amended): ascending absent, empty or "true" gives ASC, "false" gives DESC,
\* and every other string ("TRUE", "False", "1") is answered 400, with "invalid
\* ascending parameter" when the parameters parsed before it are valid.
C9_Ascending ==
    IsList =>
       /\ IF Unset(resp.req.query.ascending) \/ resp.req.query.ascending = Given(TrueText)
          THEN resp.message # "invalid ascending parameter"
                 /\ (Sent => resp.stmts[1].subst[2] = ASC)
          ELSE IF resp.req.query.ascending = Given(FalseText)
          THEN resp.message # "invalid ascending parameter"
                 /\ (Sent => resp.stmts[1].subst[2] = DESC)
          ELSE /\ resp.status = StatusBadRequest /\ ~Sent
               /\ (BirthdayPasses(resp.req.query) /\ PagingPasses(resp.req.query)
                     /\ OrderbyPasses(resp.req.query))
                     => resp.message = "invalid ascending parameter"
       /\ (BirthdayPasses(resp.req.query) /\ PagingPasses(resp.req.query)
             /\ OrderbyPasses(resp.req.query) /\ AscendingPasses(resp.req.query)) => Sent

\* ascending=false has given DESC on a store with rows
C9_Witness ==
    /\ IsList /\ Sent /\ resp.status = StatusOK
    /\ resp.req.query.ascending = Given(FalseText)
    /\ resp.stmts[1].subst[2] = DESC

\* the limit and the offset a statement carries to the store (its last two
\* arguments)
LimitSent == resp.stmts[1].args[Len(resp.stmts[1].args) - 1]
OffsetSent == resp.stmts[1].args[Len(resp.stmts[1].args)]

\* C10 as the claim states it: limit absent becomes the maximum int, limit present
\* must be an integer >= 1, otherwise 400; offset absent becomes 0, offset present
\* must be an integer >= 0, otherwise 400; no other value reaches the store.
C10_PresentMustBeInteger ==
    IsList =>
       /\ IF resp.req.query.limit = Absent THEN Sent => LimitSent = maxInt
          ELSE IF resp.req.query.limit[1] \in IntegersFromOne
          THEN Sent => LimitSent = resp.req.query.limit[1]
          ELSE resp.status = StatusBadRequest /\ ~Sent
       /\ IF resp.req.query.offset = Absent THEN Sent => OffsetSent = <<"0">>
          ELSE IF resp.req.query.offset[1] \in IntegersFromZero
          THEN Sent => OffsetSent = resp.req.query.offset[1]
          ELSE resp.status = StatusBadRequest /\ ~Sent

\* C10 (amended): limit absent or empty becomes the maximum int, any other limit
\* must be an integer >= 1, otherwise 400; offset absent or empty becomes 0, any
\* other offset must be an integer >= 0, otherwise 400; no other value reaches the
\* store.
C10_Paging ==
    IsList =>
       /\ IF Unset(resp.req.query.limit) THEN Sent => LimitSent = maxInt
          ELSE IF resp.req.query.limit[1] \in IntegersFromOne
          THEN Sent => LimitSent = resp.req.query.limit[1]
          ELSE resp.status = StatusBadRequest /\ ~Sent
       /\ IF Unset(resp.req.query.offset) THEN Sent => OffsetSent = <<"0">>
          ELSE IF resp.req.query.offset[1] \in IntegersFromZero
          THEN Sent => OffsetSent = resp.req.query.offset[1]
          ELSE resp.status = StatusBadRequest /\ ~Sent
       /\ Sent => /\ LimitSent \in IntegersFromOne
                  /\ OffsetSent \in IntegersFromZero
       /\ (BirthdayPasses(resp.req.query) /\ ~PagingPasses(resp.req.query))
             => resp.message \in {"invalid limit parameter", "invalid offset parameter"}

\* limit=1 and no offset on a store of two rows: the statement carries "1" and
\* "0", and one row is listed
C10_Witness ==
    /\ IsList /\ Sent /\ resp.status = StatusOK
    /\ resp.req.query.limit = Given(One) /\ resp.req.query.offset = Absent
    /\ LimitSent = One /\ OffsetSent = <<"0">>
    /\ Cardinality(DOMAIN contacts) = 2 /\ Len(resp.body) = 1

-----------------------------------------------------------------------------
(* The service: the search with its filters *)

\* contacts with and without a last name, a first name and a birthday
SearchPostBodies ==
    {JsonObject(Omitted, JsonString(<<"a", "b">>), JsonString(<<"c">>), Omitted, JsonTime(Day2)),
     JsonObject(Omitted, JsonString(<<"a">>), Omitted, Omitted, JsonTime(Day1)),
     JsonObject(Omitted, JsonString(<<"b">>), JsonString(<<"c", "d">>), Omitted, Omitted),
     JsonObject(Omitted, Omitted, JsonString(<<"c">>), Omitted, Omitted)}

\* name prefixes: none, empty, letters, and the wildcards of LIKE
FirstnameValues == {Absent, Given(<<>>), Given(<<"a">>), Given(<<"b">>), Given(<<"_">>)}
LastnameValues == {Absent, Given(<<"c">>), Given(<<"%", "d">>)}

\* days of the year: none, days of contacts, month 0 and day 0, a month 0
BirthdayValues == {Absent, Given(<<"4", "-", "1", "3">>), Given(<<"3", "-", "2">>), Given(<<"0", "-", "0">>), Given(<<"0", "-", "1", "3">>)}

SearchFilters ==
    {[firstname |-> first, lastname |-> last, birthday |-> birthday] :
        first \in FirstnameValues, last \in LastnameValues, birthday \in BirthdayValues}

\* the queries of a search: every filter; pages of some filters; and every
\* combination of one valid and one invalid value for each validated parameter
SearchQueries ==
    {QueryOf(filter, Absent, Absent, Absent, Absent) : filter \in SearchFilters}
    \cup {QueryOf([firstname |-> first, lastname |-> Absent, birthday |-> birthday],
                  limit, offset, Absent, Absent) :
            first \in {Absent, Given(<<"a">>)}, birthday \in {Absent, Given(<<"3", "-", "2">>)},
            limit \in {Absent, Given(One)}, offset \in {Absent, Given(One), Given(Two)}}
    \cup {QueryOf([firstname |-> Absent, lastname |-> Absent, birthday |-> birthday],
                  limit, offset, orderby, ascending) :
            birthday \in {Absent, Given(<<"4", "1", "3">>)}, limit \in {Absent, Given(<<"0">>)},
            offset \in {Absent, Given(MinusOne)},
            orderby \in {Absent, Given(UnderscoredFirst)},
            ascending \in {Absent, Given(One)}}

CreateSearch ==
    autoIncrement <= MaxContacts /\ \E body \in SearchPostBodies : createContact(body)
Search == \E query \in SearchQueries : findContacts(query)

NextSearch == CreateSearch \/ Search

SpecSearch == Init /\ [][NextSearch]_vars

-----------------------------------------------------------------------------
(* Properties of the search *)

\* the month and the day a birthday parameter of the model names
MonthDayOf(text) ==
    CASE text = <<"4", "-", "1", "3">> -> [m |-> 4, d |-> 13]
      [] text = <<"3", "-", "2">> -> [m |-> 3, d |-> 2]
      [] text = <<"0", "-", "0">> -> [m |-> 0, d |-> 0]
      [] text = <<"0", "-", "1", "3">> -> [m |-> 0, d |-> 13]

MonthDayForms == {<<"4", "-", "1", "3">>, <<"3", "-", "2">>, <<"0", "-", "0">>, <<"0", "-", "1", "3">>}

\* a contact of a response, or a row of the store, has its birthday on that day
BornOn(birthday, md) ==
    birthday # Nil /\ birthday[1].m = md.m /\ birthday[1].d = md.d

\* C11 as the claim states it: a birthday parameter <month>-<day> of two integers,
\* 0 and out-of-range values included, restricts the result to the contacts born
\* on that month and day; when no stored contact is, the answer is 404, never the
\* unfiltered list.
C11_BirthdayRestricts ==
    (/\ IsList /\ Sent
     /\ resp.req.query.birthday # Absent
     /\ resp.req.query.birthday[1] \in MonthDayForms)
        => LET md == MonthDayOf(resp.req.query.birthday[1])
           IN  /\ \A i \in 1..Len(resp.body) : BornOn(resp.body[i].Birthday, md)
               /\ (\A id \in DOMAIN contacts : ~BornOn(contacts[id].birthday, md))
                     => resp.status = StatusNotFound

\* a name of a response starts with the prefix
StartsWith(name, prefix) ==
    /\ name # Nil
    /\ Len(prefix) <= Len(name[1])
    /\ SubSeq(name[1], 1, Len(prefix)) = prefix

\* C12 as the claim states it: every row of GET /contacts?firstname=P has a first
\* name that starts with P, and every row of GET /contacts?lastname=P a last name
\* that starts with P (P not empty).
C12_NamesStartWithPrefix ==
    (IsList /\ resp.status = StatusOK)
        => /\ ~Unset(resp.req.query.firstname)
                => \A i \in 1..Len(resp.body) :
                      StartsWith(resp.body[i].FirstName, resp.req.query.firstname[1])
           /\ ~Unset(resp.req.query.lastname)
                => \A i \in 1..Len(resp.body) :
                      StartsWith(resp.body[i].LastName, resp.req.query.lastname[1])

\* every parameter of the query passes its check
ValidSearch(query) ==
    /\ Unset(query.birthday) \/ query.birthday[1] \in MonthDayForms
    /\ PagingPasses(query) /\ OrderbyPasses(query) /\ AscendingPasses(query)

\* the limit and the offset of a query as numbers (no limit: more than the store
\* holds)
LimitOf(query) ==
    IF Unset(query.limit) \/ query.limit[1] = maxInt THEN MaxContacts + 2
    ELSE IF query.limit[1] = Two THEN 2 ELSE 1

OffsetOf(query) ==
    IF Unset(query.offset) \/ query.offset[1] = <<"0">> THEN 0
    ELSE IF query.offset[1] = Two THEN 2 ELSE 1

\* the number of rows of the store that the WHERE clause of the statement sent keeps
Selected ==
    Cardinality({id \in DOMAIN contacts :
                    Matches(contacts, id, resp.stmts[1].sql[2], resp.stmts[1].args)})

\* the number of them on the page the query asks for
OnPage ==
    LET left == Selected - OffsetOf(resp.req.query)
    IN  IF left <= 0 THEN 0 ELSE Min(left, LimitOf(resp.req.query))

\* C13: GET /contacts with valid parameters sends its statement and is answered
\* 404 exactly when the filtered and paged result has no row (empty table, no
\* match, or an offset past the last match), and 200 with the rows of the page
\* otherwise; it never answers 200 with an empty array.
C13_NotFoundIffNoRows ==
    (IsList /\ ValidSearch(resp.req.query))
        => /\ Sent
           /\ resp.status \in {StatusOK, StatusNotFound}
           /\ resp.status = StatusNotFound <=> OnPage = 0
           /\ Len(resp.body) = OnPage
           /\ resp.status = StatusNotFound => resp.message = "contact not found"

\* a filter that matches one of two contacts, and an offset past that match
C13_Witness ==
    /\ IsList /\ resp.status = StatusNotFound
    /\ resp.req.query.firstname = Given(<<"a">>)
    /\ resp.req.query.offset = Given(One)
    /\ Cardinality(DOMAIN contacts) = 2
    /\ Selected = 1

-----------------------------------------------------------------------------
(* Properties of the steps of POST, DELETE and PUT *)

\* a body that parses as a Contact: an object whose members, where present, have
\* the JSON type of their field
Parses(body) ==
    /\ IsObject(body)
    /\ body.id.j \in {"omitted", "null", "number"}
    /\ \A f \in {"firstname", "lastname", "phone"} : body[f].j \in {"omitted", "null", "string"}
    /\ body.birthday.j \in {"omitted", "null", "time"}

\* the step is a POST: its request is the one of the response after the step (a
\* PUT between its two statements leaves the response of an earlier POST in place,
\* and moves on in inflight)
PostStep == resp'.req.op = "POST" /\ inflight' = inflight

\* the step has inserted exactly one contact, under a new id that the response
\* carries, and has left the contacts stored before as they were
InsertedOne ==
    /\ resp'.status = StatusCreated
    /\ Len(resp'.body) = 1
    /\ resp'.body[1].Id \notin DOMAIN contacts \cup deleted
    /\ DOMAIN contacts' = DOMAIN contacts \cup {resp'.body[1].Id}
    /\ \A id \in DOMAIN contacts : contacts'[id] = contacts[id]

InsertedNothing == contacts' = contacts /\ autoIncrement' = autoIncrement

\* C14 as the claim states it: a POST whose body does not parse as a Contact is
\* answered 400 and inserts nothing; one whose body parses is answered 201 and
\* inserts exactly one contact, whose store-assigned id is in the response and
\* differs from the id of every contact stored before.
C14_ParsesThenCreated ==
    [][PostStep =>
          IF Parses(resp'.req.body) THEN InsertedOne
          ELSE resp'.status = StatusBadRequest /\ InsertedNothing]_vars

\* C14 (amended): the same, where the body that parses has no text of more than
\* 50 characters; with a longer text the store may refuse the INSERT, and the
\* POST is then answered 500 and inserts nothing.
C14_PostInserts ==
    [][PostStep =>
          IF ~Parses(resp'.req.body) THEN resp'.status = StatusBadRequest /\ InsertedNothing
          ELSE IF AllStoredAsIs(resp'.req.body) THEN InsertedOne
          ELSE InsertedOne \/ (resp'.status = StatusPanic /\ InsertedNothing)]_vars

\* a POST has been stored as the second contact, under an id that no contact had
C14_Witness ==
    /\ resp.req.op = "POST" /\ resp.status = StatusCreated
    /\ IsObject(resp.req.body) /\ Present(resp.req.body) = {"firstname"}
    /\ Cardinality(DOMAIN contacts) = 2
    /\ resp.body[1].Id \in DOMAIN contacts
    /\ resp.body[1].FirstName = <<<<"a">>>>

\* the number a path id of the model names (0 for the ids that name none)
NumberOf(id) ==
    CASE id \in {<<"1">>, <<"+", "1">>} -> 1
      [] id = <<"2">> -> 2
      [] id = <<"3">> -> 3
      [] id = <<"9">> -> 9
      [] id = <<"-", "1">> -> -1
      [] OTHER -> 0

\* the step is a DELETE
DeleteStep == resp'.req.op = "DELETE" /\ inflight' = inflight

\* C15: a DELETE with a numeric id is answered 200 exactly when a contact with
\* that id is stored; it then removes that contact and leaves every other contact
\* as it was. With no such contact it is answered 404 and the store is unchanged;
\* so a DELETE of the id of a DELETE just answered 200 is answered 404.
C15_DeleteExactlyThat ==
    [][(DeleteStep /\ resp'.req.id \in IntegerIds) =>
          LET n == NumberOf(resp'.req.id)
          IN  /\ IF n \in DOMAIN contacts
                 THEN /\ resp'.status = StatusOK
                      /\ DOMAIN contacts' = DOMAIN contacts \ {n}
                 ELSE /\ resp'.status = StatusNotFound
                      /\ DOMAIN contacts' = DOMAIN contacts
              /\ \A id \in DOMAIN contacts' : contacts'[id] = contacts[id]
              /\ autoIncrement' = autoIncrement
              /\ (resp.req.op = "DELETE" /\ resp.status = StatusOK
                     /\ NumberOf(resp.req.id) = n) => resp'.status = StatusNotFound]_vars

\* contact 1 of two has been deleted, by the id +1, and contact 2 is stored
C15_Witness ==
    /\ resp.req.op = "DELETE" /\ resp.status = StatusOK
    /\ resp.req.id = <<"+", "1">>
    /\ DOMAIN contacts = {2}
    /\ deleted = {1}

\* a body without its id member
WithoutId(body) == IF IsObject(body) THEN [body EXCEPT !.id = Omitted] ELSE body

\* what a POST of the body would store and answer in this state
PostOf(body) ==
    createContactOutcome(contacts, autoIncrement, Request("POST", <<>>, body, NoQuery),
                         sqlStrict)

\* the store after the UPDATE of a PUT of the body on the id in this state
PutOf(id, body) ==
    updateContactByIDOutcome(contacts, Request("PUT", id, body, NoQuery), sqlStrict).table

\* C16: the ids of the stored contacts are unique and stable. The contact a GET
\* by id returns carries that id; a step changes the set of stored ids only by a
\* POST, which adds one new id, or by a DELETE, which removes one; the id member
\* of a POST or PUT body has no effect on what is stored; and the UPDATE of a PUT
\* changes at most one row and no id.
C16_IdsUniqueAndStable ==
    /\ [](/\ (resp.req.op = "GET" /\ resp.status = StatusOK)
               => /\ resp.body[1].Id = NumberOf(resp.req.id)
                  /\ resp.body[1].Id \in DOMAIN contacts
          /\ \A body \in PostBodies :
                LET with == PostOf(body)
                    without == PostOf(WithoutId(body))
                IN  /\ with.table = without.table
                    /\ with.resp.status = without.resp.status
                    /\ with.resp.status = StatusCreated
                          => /\ with.resp.body[1].Id = without.resp.body[1].Id
                             /\ with.resp.body[1].Id \notin DOMAIN contacts
          /\ \A id \in PathIds, body \in PutBodies :
                LET after == PutOf(id, body)
                IN  /\ after = PutOf(id, WithoutId(body))
                    /\ DOMAIN after = DOMAIN contacts
                    /\ Cardinality({i \in DOMAIN contacts : after[i] # contacts[i]}) <= 1)
    /\ [][/\ DOMAIN contacts' # DOMAIN contacts
                 => \/ PostStep /\ Cardinality(DOMAIN contacts' \ DOMAIN contacts) = 1
                                /\ DOMAIN contacts \subseteq DOMAIN contacts'
                    \/ DeleteStep /\ Cardinality(DOMAIN contacts \ DOMAIN contacts') = 1
                                  /\ DOMAIN contacts' \subseteq DOMAIN contacts
           /\ \A id \in DOMAIN contacts \cap DOMAIN contacts' :
                 contacts'[id] # contacts[id]
                    => /\ inflight[1].pc = "idle" /\ inflight'[1].pc = "select"
                       /\ NumberOf(inflight'[1].req.id) = id]_vars

\* a POST with the id 2 in its body has been stored as contact 1, and a PUT with
\* the id 1 in its body has updated contact 2
C16_Witness ==
    /\ inflight[1].pc = "select"
    /\ inflight[1].req.id = <<"2">>
    /\ inflight[1].req.body.id = JsonNumber(1)
    /\ DOMAIN contacts = {1, 2}
    /\ 1 \in DOMAIN posted /\ posted[1].id = JsonNumber(2)
    /\ contacts[1].firstname = <<<<"a">>>>
    /\ contacts[2].firstname = <<<<"b">>>>

-----------------------------------------------------------------------------
(* The service: PUT bodies with null members *)

\* the number of rows inserted while the null members vary
MaxNullContacts == 1

NullIds == {Itoa(i) : i \in 1..(MaxNullContacts + 1)} \cup {<<"a", "b", "c">>}

NullPostBodies ==
    {JsonObject(Omitted, Omitted, Omitted, Omitted, Omitted),
     JsonObject(Omitted, JsonString(Text("a")), Omitted, JsonString(Text("1")), JsonTime(Day1))}

\* bodies with nulls alone, with a null beside a value, and the same without nulls
NullPutBodies ==
    {JsonObject(Omitted, Omitted, Omitted, Omitted, Omitted),
     JsonObject(JsonNull, JsonNull, JsonNull, JsonNull, JsonNull),
     JsonObject(Omitted, JsonNull, Omitted, Omitted, Omitted),
     JsonObject(Omitted, JsonNull, JsonString(Text("c")), Omitted, JsonNull),
     JsonObject(Omitted, Omitted, JsonString(Text("c")), Omitted, Omitted),
     JsonObject(Omitted, JsonString(Text("b")), JsonNull, JsonNull, Omitted),
     JsonObject(Omitted, Omitted, Omitted, JsonNull, JsonTime(Day2))}

CreateNull ==
    autoIncrement <= MaxNullContacts /\ \E body \in NullPostBodies : createContact(body)
FindNull == \E id \in NullIds : findContactByID(id)
UpdateNull == \E id \in NullIds, body \in NullPutBodies : updateContactByID(1, id, body)

NextNull == CreateNull \/ FindNull \/ UpdateNull \/ UpdateSelect

SpecNull == Init /\ [][NextNull]_vars

\* a body with its null members left out
NullsOmitted(body) ==
    IF IsObject(body)
    THEN [m \in DOMAIN body |-> IF m # "j" /\ body[m] = JsonNull THEN Omitted ELSE body[m]]
    ELSE body

\* the outcome of the UPDATE of a PUT of the body on the id in this state
PutOutcome(id, body) ==
    updateContactByIDOutcome(contacts, Request("PUT", id, body, NoQuery), sqlStrict)

HasNull(body) == IsObject(body) /\ \E f \in Fields : body[f] = JsonNull

\* C17: in a PUT body a member that is null is treated as a member left out: the
\* PUT has the outcome of the PUT of the body without it (the same store, status,
\* message and number of statements), the stored value of that field is not
\* changed, a body whose fields are all null or left out is answered 400 on a
\* numeric id, and no PUT turns a stored value into NULL.
C17_NullIsOmitted ==
    \A id \in NullIds, body \in NullPutBodies :
        LET with == PutOutcome(id, body)
            without == PutOutcome(id, NullsOmitted(body))
        IN  /\ with.table = without.table
            /\ with.done = without.done
            /\ with.resp.status = without.resp.status
            /\ with.resp.message = without.resp.message
            /\ Len(with.resp.stmts) = Len(without.resp.stmts)
            /\ \A i \in DOMAIN contacts :
                  /\ \A f \in Fields : body.j = "object" /\ body[f] = JsonNull
                                          => with.table[i][f] = contacts[i][f]
                  /\ \A f \in Fields : contacts[i][f] # NULL => with.table[i][f] # NULL
            /\ (IsObject(body) /\ Present(body) = {} /\ id \in IntegerIds)
                  => with.resp.status = StatusBadRequest /\ with.table = contacts
            /\ id \notin IntegerIds => with.resp.status = StatusNotFound

\* a PUT with a null first name and a last name has run its UPDATE on a contact
\* with a first name, which it still has
C17_Witness ==
    /\ inflight[1].pc = "select"
    /\ HasNull(inflight[1].req.body)
    /\ Present(inflight[1].req.body) = {"lastname"}
    /\ \E id \in DOMAIN contacts :
          /\ NumberOf(inflight[1].req.id) = id
          /\ contacts[id].firstname = <<<<"a">>>>
          /\ contacts[id].lastname = <<<<"c">>>>

-----------------------------------------------------------------------------
(* The service: the SQL texts of the requests *)

\* the number of rows inserted while the values of the requests vary
MaxTextContacts == 1

TextIds == {Itoa(i) : i \in 1..(MaxTextContacts + 1)} \cup {<<"+", "1">>}

TextPostBodies ==
    {JsonObject(Omitted, JsonString(<<"a">>), Omitted, Omitted, JsonTime(Day2))}

\* the same fields with other values, and other fields
TextPutBodies ==
    {JsonObject(Omitted, JsonString(<<"a">>), Omitted, Omitted, Omitted),
     JsonObject(Omitted, JsonString(<<"b">>), Omitted, Omitted, Omitted),
     JsonObject(Omitted, JsonString(<<"a">>), JsonString(<<"c">>), Omitted, Omitted),
     JsonObject(Omitted, JsonString(<<"b">>), JsonString(<<"d">>), Omitted, Omitted),
     JsonObject(Omitted, JsonNull, JsonString(<<"c">>), Omitted, Omitted)}

\* the same parameters with other values: names with and without wildcards and
\* empty, days of the year with 0-0, orders and directions, limits and offsets
TextQueries ==
    {QueryOf([firstname |-> first, lastname |-> Absent, birthday |-> birthday],
             Absent, Absent, Absent, Absent) :
        first \in {Absent, Given(<<>>), Given(<<"a">>), Given(<<"_">>)},
        birthday \in {Absent, Given(<<"0", "-", "0">>), Given(<<"4", "-", "1", "3">>),
                      Given(<<"3", "-", "2">>)}}
    \cup {QueryOf([firstname |-> first, lastname |-> Absent, birthday |-> Absent],
                  Absent, Absent, orderby, ascending) :
            first \in {Given(<<"a">>), Given(<<"_">>)},
            orderby \in {Given(idName), Given(phoneName)},
            ascending \in {Absent, Given(TrueText), Given(FalseText)}}
    \cup {QueryOf(NoFilter, limit, offset, Absent, Absent) :
            limit \in {Given(One), Given(Two)}, offset \in {Absent, Given(One)}}
    \cup {QueryOf(NoFilter, Absent, Absent, Given(IdDescending), Absent),
          QueryOf(NoFilter, Absent, Absent, Absent, Given(One))}

CreateText ==
    autoIncrement <= MaxTextContacts /\ \E body \in TextPostBodies : createContact(body)
FindText == \E id \in TextIds : findContactByID(id)
UpdateText == \E id \in TextIds, body \in TextPutBodies : updateContactByID(1, id, body)
DeleteText == \E id \in TextIds : deleteContactByID(id)
SearchText == \E query \in TextQueries : findContacts(query)

NextText == CreateText \/ FindText \/ UpdateText \/ UpdateSelect \/ DeleteText \/ SearchText

SpecText == Init /\ [][NextText]_vars

-----------------------------------------------------------------------------
(* Properties of the SQL texts *)

\* the text of a statement: its fixed parts and what was written into them
TextOf(stmt) ==
    [sql |-> stmt.sql, subst |-> IF "subst" \in DOMAIN stmt THEN stmt.subst ELSE <<>>]

\* the texts of the statements of two responses are the same, statement by
\* statement, as far as both have sent one
SameTexts(a, b) ==
    \A k \in 1..Min(Len(a.stmts), Len(b.stmts)) : TextOf(a.stmts[k]) = TextOf(b.stmts[k])

\* the parts of the SQL texts that the code writes as literals
Literals ==
    {"SELECT * FROM contacts", whereNamesAndBirthday, whereNames, whereBirthday, whereNone,
     "ORDER BY %s %s", "LIMIT ? OFFSET ?", "UPDATE contacts SET ", "firstname=?",
     "lastname=?", "phone=?", "birthday=?", ", ", " WHERE id=?",
     insert[1], selectWhereId[1], deleteWhereId[1]}

\* the only text of a statement that comes from the request is a column name of
\* the whitelist and ASC or DESC
OnlyWhitelistedText(r) ==
    \A k \in 1..Len(r.stmts) :
        LET text == TextOf(r.stmts[k])
        IN  /\ \A i \in 1..Len(text.sql) : text.sql[i] \in Literals
            /\ text.subst # <<>>
                  => /\ Len(text.subst) = 2
                     /\ text.subst[1] \in ColumnsOfTheCode
                     /\ text.subst[2] \in {ASC, DESC}

\* the parameters of a query that are present, and the fields of a body
PresentParams(query) == {p \in DOMAIN query : query[p] # Absent}

\* two requests of the same operation with the same present parameters or
\* fields, the same orderby and the same ascending
SamePresent(a, b) ==
    /\ a.op = b.op
    /\ PresentParams(a.query) = PresentParams(b.query)
    /\ Present(a.body) = Present(b.body)
    /\ a.query.orderby = b.query.orderby
    /\ a.query.ascending = b.query.ascending

\* the filters of a query that are in effect: the names when one of them is not
\* empty, the birthday when it is not empty and not month 0, day 0
NamesInEffect(query) == ~Unset(query.firstname) \/ ~Unset(query.lastname)
BirthdayInEffect(query) == ~Unset(query.birthday) /\ query.birthday[1] # <<"0", "-", "0">>

\* two requests of the same operation with the same filters in effect, the same
\* fields, the same order and the same direction
SameInEffect(a, b) ==
    /\ a.op = b.op
    /\ NamesInEffect(a.query) <=> NamesInEffect(b.query)
    /\ BirthdayInEffect(a.query) <=> BirthdayInEffect(b.query)
    /\ Present(a.body) = Present(b.body)
    /\ (IF Unset(a.query.orderby) THEN idName ELSE a.query.orderby[1])
          = (IF Unset(b.query.orderby) THEN idName ELSE b.query.orderby[1])
    /\ (Unset(a.query.ascending) \/ a.query.ascending = Given(TrueText))
          <=> (Unset(b.query.ascending) \/ b.query.ascending = Given(TrueText))

\* C18 as the claim states it: two requests (here: one after the other) of the
\* same operation, with the same present parameters or fields, the same orderby
\* and the same ascending, send the same SQL text; the only request-derived text
\* is a whitelisted column name and ASC or DESC.
C18_SameParametersSameText ==
    [][/\ SamePresent(resp.req, resp'.req) => SameTexts(resp, resp')
       /\ OnlyWhitelistedText(resp')]_vars

\* C18 (amended): two requests of the same operation send the same SQL text when
\* they have the same filters in effect (a name filter when firstname or lastname
\* is not empty, a birthday filter when birthday is not empty and not 0-0), the
\* same non-null update fields, the same order and the same direction; the values
\* of the parameters, the path id and the field values are bound arguments, and
\* the only request-derived text is a whitelisted column name and ASC or DESC.
C18_SameShapeSameText ==
    [][/\ SameInEffect(resp.req, resp'.req) => SameTexts(resp, resp')
       /\ OnlyWhitelistedText(resp')]_vars

\* a search by a first name that is a wildcard, on a store with a contact: the
\* wildcard is in the first argument of the statement
C18_Witness ==
    /\ IsList /\ Sent /\ contacts # <<>>
    /\ resp.req.query.firstname = Given(<<"_">>)
    /\ resp.req.query.orderby = Given(phoneName)
    /\ resp.stmts[1].sql[2] = whereNames
    /\ resp.stmts[1].args[1] = <<"_", "%">>
    /\ resp.stmts[1].subst = <<phoneName, ASC>>

-----------------------------------------------------------------------------
(* Properties of the filters and of the order of the checks *)

\* a search without paging whose filters are plain: name prefixes of letters and
\* days of the calendar
LetterSearch(query) ==
    /\ ValidSearch(query) /\ Unset(query.limit) /\ Unset(query.offset)
    /\ Unset(query.firstname) \/ query.firstname[1] \in {<<"a">>, <<"b">>}
    /\ Unset(query.lastname) \/ query.lastname[1] = <<"c">>
    /\ Unset(query.birthday) \/ query.birthday[1] \in MonthDayBirthdays

\* a row of the store satisfies every filter the query gives
Satisfies(row, query) ==
    /\ ~Unset(query.firstname) => StartsWith(row.firstname, query.firstname[1])
    /\ ~Unset(query.lastname) => StartsWith(row.lastname, query.lastname[1])
    /\ ~Unset(query.birthday) => BornOn(row.birthday, MonthDayOf(query.birthday[1]))

Returned == {resp.body[i].Id : i \in 1..Len(resp.body)}

\* C19 as the claim states it: the result of GET /contacts without paging is
\* exactly the set of the stored contacts that satisfy every filter that is
\* present; a contact without a last name (first name) is returned by a search
\* that gives only the first name (last name), and one without a birthday by a
\* search that gives only names.
C19_ExactlyThePresentFilters ==
    (IsList /\ LetterSearch(resp.req.query))
        => Returned = {id \in DOMAIN contacts : Satisfies(contacts[id], resp.req.query)}

\* the checks of GET /contacts in the order of the claim, each with its message
\* and with the values of the model that pass it
ChecksInOrder(query) ==
    <<[message |-> "invalid birthday URL parameter",
       passes |-> Unset(query.birthday) \/ query.birthday[1] \in MonthDayForms],
      [message |-> "invalid limit parameter",
       passes |-> Unset(query.limit) \/ query.limit[1] \in IntegersFromOne],
      [message |-> "invalid offset parameter",
       passes |-> Unset(query.offset) \/ query.offset[1] \in IntegersFromZero],
      [message |-> "invalid orderby parameter", passes |-> OrderbyPasses(query)],
      [message |-> "invalid ascending parameter", passes |-> AscendingPasses(query)]>>

Failing(query) == {k \in 1..5 : ~ChecksInOrder(query)[k].passes}

\* the first check in that order that fails (0: none)
FirstFailing(query) ==
    IF Failing(query) = {} THEN 0
    ELSE CHOOSE k \in Failing(query) : \A other \in Failing(query) : k <= other

\* C20: GET /contacts checks birthday, limit, offset, orderby and ascending in
\* this order and stops at the first check that fails: the answer is then 400
\* with the message of that check alone, whatever later parameters are invalid
\* too, and no statement is sent to the store; when no check fails the answer is
\* not 400 and the statement is sent.
C20_FirstFailureAnswers ==
    IsList =>
       LET first == FirstFailing(resp.req.query)
       IN  IF first = 0
           THEN Sent /\ resp.status # StatusBadRequest
           ELSE /\ resp.status = StatusBadRequest
                /\ resp.message = ChecksInOrder(resp.req.query)[first].message
                /\ resp.stmts = <<>>
                /\ resp.body = <<>>

\* a search with an invalid limit, offset, orderby and ascending at once, on a
\* store with a contact: the answer is about the limit
C20_Witness ==
    /\ IsList /\ contacts # <<>>
    /\ Failing(resp.req.query) = {2, 3, 4, 5}
    /\ resp.status = StatusBadRequest
    /\ resp.message = "invalid limit parameter"
    /\ resp.stmts = <<>>

-----------------------------------------------------------------------------
(* The service: every request, valid and invalid, with PUTs in two goroutines *)

\* the number of rows inserted while requests of every kind are served
MaxServiceContacts == 1

\* path ids: numbers of rows, and a text that is no number
ServiceIds == {Itoa(i) : i \in 1..MaxServiceContacts} \cup {<<"x">>}

\* bodies of POST and PUT: no JSON, no field, a first name, a last name, and a
\* last name the column cannot hold
ServiceBodies ==
    {Malformed,
     JsonObject(Omitted, Omitted, Omitted, Omitted, Omitted),
     JsonObject(Omitted, JsonString(<<"a">>), Omitted, Omitted, Omitted),
     JsonObject(Omitted, Omitted, JsonString(<<"c">>), Omitted, Omitted),
     JsonObject(Omitted, Omitted, JsonString(LongText), Omitted, Omitted)}

\* queries of GET /contacts: valid ones, and one that fails each check
ServiceQueries ==
    {QueryOf(NoFilter, Absent, Absent, Absent, Absent),
     QueryOf([firstname |-> Given(<<"a">>), lastname |-> Absent, birthday |-> Absent],
             Given(One), Absent, Absent, Absent),
     QueryOf([firstname |-> Absent, lastname |-> Absent, birthday |-> Given(<<"4", "1", "3">>)],
             Absent, Absent, Absent, Absent),
     QueryOf(NoFilter, Given(<<"0">>), Absent, Absent, Absent),
     QueryOf(NoFilter, Absent, Given(MinusOne), Absent, Absent),
     QueryOf(NoFilter, Absent, Absent, Given(IdDescending), Absent),
     QueryOf(NoFilter, Absent, Absent, Absent, Given(One))}

CreateService ==
    autoIncrement <= MaxServiceContacts /\ \E body \in ServiceBodies : createContact(body)
FindService == \E id \in ServiceIds : findContactByID(id)
UpdateService ==
    \E h \in Handlers, id \in ServiceIds, body \in ServiceBodies : updateContactByID(h, id, body)
SelectService == \E h \in Handlers : updateContactSelect(h)
DeleteService == \E id \in ServiceIds : deleteContactByID(id)
SearchService == \E query \in ServiceQueries : findContacts(query)

NextService ==
    CreateService \/ FindService \/ UpdateService \/ SelectService \/ DeleteService
        \/ SearchService

SpecService == Init /\ [][NextService]_vars

-----------------------------------------------------------------------------
(* Properties of every request *)

\* the answer is a rejection by validation: a 400, or the 404 of a path id that
\* is no number
Rejected(r) == r.status = StatusBadRequest \/ r.message = "invalid id parameter"

\* the request of the answer is invalid: its path id is no number, its body is no
\* JSON or (PUT) names no field, or a parameter of its query fails its check
Invalid(req) ==
    \/ req.op \in {"GET", "PUT", "DELETE"} /\ req.id = <<"x">>
    \/ req.op \in {"POST", "PUT"} /\ req.body = Malformed
    \/ req.op = "PUT" /\ req.body = JsonObject(Omitted, Omitted, Omitted, Omitted, Omitted)
    \/ req.op = "LIST" /\ Failing(req.query) # {}

\* C21: a request that validation rejects (a path id that is no number, a body
\* that is no JSON, a PUT without a field, a bad birthday, limit, offset, orderby
\* or ascending) is answered 400, or 404 'invalid id parameter', without a
\* statement sent to the store, and the step that answers it leaves the table as
\* it was; no PUT waits for its SELECT with such a request.
C21_RejectedBeforeTheStore ==
    /\ [](/\ Invalid(resp.req) <=> Rejected(resp)
          /\ Rejected(resp) => resp.stmts = <<>> /\ resp.body = <<>>
          /\ \A h \in Handlers : ~Invalid(inflight[h].req))
    /\ [][(resp' # resp /\ Rejected(resp'))
             => contacts' = contacts /\ autoIncrement' = autoIncrement]_vars

\* a PUT without a field on a stored contact, answered 400 with no statement
C21_Witness ==
    /\ resp.req.op = "PUT" /\ resp.req.id = One
    /\ 1 \in DOMAIN contacts
    /\ resp.message = "no values to be updated"
    /\ resp.stmts = <<>>

-----------------------------------------------------------------------------
(* The service: PUT with every set of fields *)

\* the number of rows inserted while the fields of the PUT vary
MaxPutContacts == 1

\* every body of the four fields, each left out or given, and two with a null
EveryPutBody ==
    {JsonObject(Omitted, first, last, phone, bday) :
        first \in {Omitted, JsonString(<<"a">>)}, last \in {Omitted, JsonString(<<"c">>)},
        phone \in {Omitted, JsonString(<<"1">>)}, bday \in {Omitted, JsonTime(Day1)}}
    \cup {JsonObject(Omitted, JsonNull, JsonString(<<"c">>), Omitted, JsonTime(Day1)),
          JsonObject(Omitted, JsonString(<<"a">>), JsonNull, JsonString(<<"1">>), JsonNull)}

CreatePut ==
    /\ autoIncrement <= MaxPutContacts
    /\ createContact(JsonObject(Omitted, Omitted, Omitted, Omitted, Omitted))
UpdatePut ==
    \E id \in {Itoa(i) : i \in 1..MaxPutContacts}, body \in EveryPutBody :
        updateContactByID(1, id, body)

NextPut == CreatePut \/ UpdatePut \/ UpdateSelect

SpecPut == Init /\ [][NextPut]_vars

\* the fields of the body that are given, in the order firstname, lastname, phone,
\* birthday, as assignments and as arguments
GivenFields(body) ==
    SelectSeq(<<"firstname", "lastname", "phone", "birthday">>,
              LAMBDA f : body[f].j \notin {"omitted", "null"})

RECURSIVE SetList(_)
SetList(fields) ==
    IF fields = <<>> THEN <<>>
    ELSE IF Len(fields) = 1 THEN <<Head(fields) \o "=?">>
    ELSE <<Head(fields) \o "=?", ", ">> \o SetList(Tail(fields))

\* the UPDATE of a PUT, when it has sent one
UpdateOf(r) == r.stmts[1]

\* C22: the UPDATE statement of a PUT is "UPDATE contacts SET ", then one
\* assignment per given field in the order firstname, lastname, phone, birthday
\* with ", " between two of them and none after the last, then " WHERE id=?"; its
\* arguments are the values of these fields in the same order and then the path
\* id, so there are as many placeholders as arguments; a PUT with no given field
\* sends no statement.
C22_OneAssignmentPerField ==
    resp.req.op = "PUT" =>
       LET fields == GivenFields(resp.req.body)
       IN  IF fields = <<>>
           THEN resp.stmts = <<>>
           ELSE /\ resp.stmts # <<>>
                /\ UpdateOf(resp).sql
                      = <<"UPDATE contacts SET ">> \o SetList(fields) \o <<" WHERE id=?">>
                /\ UpdateOf(resp).args
                      = [k \in 1..(Len(fields) + 1) |->
                            IF k <= Len(fields) THEN <<resp.req.body[fields[k]].v>>
                            ELSE resp.req.id]
                /\ Cardinality({i \in 1..Len(UpdateOf(resp).sql) :
                                   UpdateOf(resp).sql[i] \in Assignments \cup {" WHERE id=?"}})
                      = Len(UpdateOf(resp).args)

\* a PUT of a last name and a birthday, with a null first name and no phone
C22_Witness ==
    /\ resp.req.op = "PUT" /\ resp.status = StatusOK
    /\ resp.req.body = JsonObject(Omitted, JsonNull, JsonString(<<"c">>), Omitted, JsonTime(Day1))
    /\ UpdateOf(resp).sql = <<"UPDATE contacts SET ", "lastname=?", ", ", "birthday=?", " WHERE id=?">>
    /\ UpdateOf(resp).args = <<<<<<"c">>>>, <<Day1>>, One>>

\* the text a statement begins with
HeadOf(stmt) == stmt.sql[1]

\* the first statement of each operation
FirstStatement(op) ==
    CASE op = "LIST" -> "SELECT * FROM contacts"
      [] op = "GET" -> selectWhereId[1]
      [] op = "DELETE" -> deleteWhereId[1]
      [] op = "POST" -> insert[1]
      [] op = "PUT" -> "UPDATE contacts SET "

\* a goroutine sends the UPDATE of a PUT and goes on to its SELECT / answers a PUT
\* after its UPDATE alone / answers a PUT after its SELECT
GoesOn(h) == inflight[h].pc = "idle" /\ inflight'[h].pc = "select"
AnswersAfterUpdate ==
    /\ resp' # resp /\ inflight' = inflight
    /\ resp'.req.op = "PUT" /\ Len(resp'.stmts) = 1
AnswersAfterSelect(h) == inflight[h].pc = "select" /\ inflight'[h].pc = "idle"

\* C23: a request whose validation passes sends exactly one statement when it is
\* a list, a get, a delete or a create; a PUT sends its UPDATE and, exactly when
\* the UPDATE has affected a row, the SELECT by the path id as its second and last
\* statement; a rejected request sends none, and no request sends more than two.
C23_BoundedStatements ==
    /\ [](/\ Len(resp.stmts) <= 2
          /\ Invalid(resp.req) => resp.stmts = <<>>
          /\ (resp.req.op # "none" /\ ~Invalid(resp.req))
                => /\ Len(resp.stmts) >= 1
                   /\ HeadOf(resp.stmts[1]) = FirstStatement(resp.req.op)
                   /\ resp.req.op # "PUT" => Len(resp.stmts) = 1
                   /\ Len(resp.stmts) = 2
                         => resp.stmts[2] = Statement(selectWhereId, <<resp.req.id>>)
          /\ \A h \in Handlers :
                inflight[h].pc = "select"
                   => /\ Len(inflight[h].stmts) = 1
                      /\ HeadOf(inflight[h].stmts[1]) = FirstStatement("PUT"))
    /\ [][/\ \A h \in Handlers :
                /\ GoesOn(h) => contacts' # contacts
                /\ AnswersAfterSelect(h)
                      => /\ resp'.req = inflight[h].req
                         /\ Len(resp'.stmts) = 2
                         /\ contacts' = contacts
          /\ AnswersAfterUpdate => contacts' = contacts]_vars

\* a PUT that changes the stored contact, answered 200 after two statements
C23_Witness ==
    /\ resp.req.op = "PUT" /\ resp.status = StatusOK
    /\ Len(resp.stmts) = 2
    /\ HeadOf(resp.stmts[1]) = "UPDATE contacts SET "
    /\ HeadOf(resp.stmts[2]) = selectWhereId[1]

-----------------------------------------------------------------------------
(* Properties of the pages *)

\* the ids of the rows that the WHERE clause of the statement sent keeps
SelectedIds ==
    {id \in DOMAIN contacts :
        Matches(contacts, id, resp.stmts[1].sql[2], resp.stmts[1].args)}

\* the column and the direction the query asks for
ColumnAsked(query) == IF Unset(query.orderby) THEN idName ELSE query.orderby[1]
Descending(query) == query.ascending = Given(FalseText)

\* the filtered lists sorted by the column asked for (rows with the same value in
\* either order)
SortedLists(query) ==
    LET n == Cardinality(SelectedIds)
    IN  {list \in {[i \in 1..n |-> ScanContact(p[i], contacts[p[i]])] :
                      p \in {q \in [1..n -> SelectedIds] :
                                \A i, k \in 1..n : i # k => q[i] # q[k]}} :
            Sorted(list, ColumnAsked(query), Descending(query))}

\* the rows at the positions offset .. offset+limit-1 of a list (counted from 0)
Page(list, offset, limit) ==
    SubSeq(list, offset + 1, Min(offset + limit, Len(list)))

\* C24: GET /contacts with valid parameters answers with the rows at the
\* positions offset .. offset+limit-1 of the filtered list sorted by the column
\* asked for (404 when there is none): at most limit rows, and every matching
\* row when limit and offset are absent.
C24_PageOfTheSortedList ==
    (IsList /\ ValidSearch(resp.req.query))
        => /\ Sent
           /\ \E list \in SortedLists(resp.req.query) :
                 resp.body = Page(list, OffsetOf(resp.req.query), LimitOf(resp.req.query))
           /\ Len(resp.body) <= LimitOf(resp.req.query)
           /\ (Unset(resp.req.query.limit) /\ Unset(resp.req.query.offset))
                 => Len(resp.body) = Cardinality(SelectedIds)
           /\ resp.status = IF resp.body = <<>> THEN StatusNotFound ELSE StatusOK

\* the second page of one row of two contacts listed by phone, descending: the
\* contact with the lower phone
C24_Witness ==
    /\ IsList /\ resp.status = StatusOK
    /\ resp.req.query.limit = Given(One) /\ resp.req.query.offset = Given(One)
    /\ resp.req.query.orderby = Given(phoneName)
    /\ resp.req.query.ascending = Given(FalseText)
    /\ Cardinality(SelectedIds) = 2
    /\ Len(resp.body) = 1
    /\ resp.body[1].Phone = <<<<"1", "0">>>>

-----------------------------------------------------------------------------
(* The service: PUTs and DELETEs in goroutines that interleave *)

\* the number of rows inserted while PUTs interleave
MaxRaceContacts == 2

RaceIds == {Itoa(i) : i \in 1..MaxRaceContacts}

\* PUT bodies: two first names, and a last name
RaceBodies ==
    {JsonObject(Omitted, JsonString(<<"a">>), Omitted, Omitted, Omitted),
     JsonObject(Omitted, JsonString(<<"b">>), Omitted, Omitted, Omitted),
     JsonObject(Omitted, Omitted, JsonString(<<"c">>), Omitted, Omitted)}

CreateRace ==
    /\ autoIncrement <= MaxRaceContacts
    /\ createContact(JsonObject(Omitted, Omitted, Omitted, Omitted, Omitted))
UpdateRace ==
    \E h \in Handlers, id \in RaceIds, body \in RaceBodies : updateContactByID(h, id, body)
DeleteRace == \E id \in RaceIds : deleteContactByID(id)

NextRace == CreateRace \/ UpdateRace \/ SelectService \/ DeleteRace

SpecRace == Init /\ [][NextRace]_vars

-----------------------------------------------------------------------------
(* Properties of two PUTs handled at the same time *)

\* Two PUTs a and b, each an UPDATE and, when that has affected a row, a SELECT.
\* A schedule says which of the two takes its next step; a run is the table and,
\* for each, where it is and what it has answered.
Schedules ==
    {<<1, 1, 2, 2>>, <<1, 2, 1, 2>>, <<1, 2, 2, 1>>,
     <<2, 1, 1, 2>>, <<2, 1, 2, 1>>, <<2, 2, 1, 1>>}

StartOfRun(table) ==
    [table |-> table, pc |-> <<"idle", "idle">>, resp |-> <<NoResponse, NoResponse>>]

StepOfRun(run, k, reqs) ==
    IF run.pc[k] = "idle"
    THEN LET out == updateContactByIDOutcome(run.table, reqs[k], sqlStrict)
         IN  [table |-> out.table,
              pc |-> [run.pc EXCEPT ![k] = IF out.done THEN "done" ELSE "select"],
              resp |-> [run.resp EXCEPT ![k] = out.resp]]
    ELSE IF run.pc[k] = "select"
    THEN [run EXCEPT !.pc[k] = "done",
                     !.resp[k] = updateContactSelectOutcome(run.table, reqs[k],
                                                            run.resp[k].stmts)]
    ELSE run

\* the run of a schedule of four steps from a table
RunOf(schedule, reqs, table) ==
    LET one == StepOfRun(StartOfRun(table), schedule[1], reqs)
        two == StepOfRun(one, schedule[2], reqs)
        three == StepOfRun(two, schedule[3], reqs)
    IN  StepOfRun(three, schedule[4], reqs)

\* the table and the answers at the end of a run
EndOf(run) == [table |-> run.table, resp |-> run.resp]

PutRequest(id, body) == Request("PUT", id, body, NoQuery)

StoredIds == {id \in RaceIds : NumberOf(id) \in DOMAIN contacts}

\* pairs of PUTs on two different stored contacts (the schedules take them in
\* both orders)
OnDifferentContacts ==
    {<<PutRequest(ids[1], body1), PutRequest(ids[2], body2)>> :
        ids \in {pair \in StoredIds \X StoredIds : NumberOf(pair[1]) < NumberOf(pair[2])},
        body1 \in RaceBodies, body2 \in RaceBodies}

\* every schedule of the two PUTs ends in the table, and gives the answers, of
\* handling one after the other, in either order
AsOneAfterTheOther(reqs) ==
    Cardinality({EndOf(RunOf(schedule, reqs, contacts)) : schedule \in Schedules}) = 1

\* each of the two is answered 200 with its record after the update
EachAnswered200(reqs) ==
    \A schedule \in Schedules :
        LET run == RunOf(schedule, reqs, contacts)
        IN  \A k \in 1..2 :
               LET n == NumberOf(reqs[k].id)
                   fields == GivenFields(reqs[k].body)
               IN  /\ run.resp[k].status = StatusOK
                   /\ run.resp[k].body = <<ScanContact(n, run.table[n])>>
                   /\ \A i \in 1..Len(fields) :
                         run.table[n][fields[i]] = <<reqs[k].body[fields[i]].v>>

\* two PUTs on different stored contacts are independent of each other: whatever
\* the order of their statements, the table and the two answers are those of
\* handling one after the other
DifferentContactsIndependent ==
    \A reqs \in OnDifferentContacts : AsOneAfterTheOther(reqs)

\* C25 as the claim states it: for two PUTs on different stored ids, every
\* interleaving of their statements ends in the table of handling them one after
\* the other in either order, and each is answered 200 with its own record after
\* the update.
C25_DifferentIdsEach200 ==
    \A reqs \in OnDifferentContacts : AsOneAfterTheOther(reqs) /\ EachAnswered200(reqs)

-----------------------------------------------------------------------------
(* Properties of the PUTs that interleave *)

\* the contact of the answer shows, for every field the body gives, the value of
\* the body
ShowsTheValuesOf(contact, body) ==
    \A i \in 1..Len(GivenFields(body)) :
        FieldOf(contact, GivenFields(body)[i]) = <<body[GivenFields(body)[i]].v>>

\* C26 as the claim states it: every 200 to a PUT carries the record after that
\* PUT: for each field of its body the contact of the answer shows the value of
\* that body, also when other PUTs on the same id are handled at the same time.
C26_AnswerShowsOwnValues ==
    [][\A h \in Handlers :
          (AnswersAfterSelect(h) /\ resp'.status = StatusOK)
             => /\ Len(resp'.body) = 1
                /\ ShowsTheValuesOf(resp'.body[1], inflight[h].req.body)]_vars

-----------------------------------------------------------------------------
(* Properties of the errors of the store *)

\* the request carries a last name that the column cannot hold: the store, in
\* strict mode, reports an error for the INSERT, and for the UPDATE of a stored
\* contact
TooLong(req) ==
    /\ req.op \in {"POST", "PUT"} /\ ~Invalid(req)
    /\ req.body.lastname = JsonString(LongText)

FailsAtTheStore(req) ==
    /\ TooLong(req)
    /\ req.op = "PUT" => NumberOf(req.id) \in DOMAIN contacts

Disjoint(body1, body2) ==
    \A i \in 1..Len(GivenFields(body1)), k \in 1..Len(GivenFields(body2)) :
        GivenFields(body1)[i] # GivenFields(body2)[k]

\* the row has the values the body gives
HasTheValuesOf(row, body) ==
    \A i \in 1..Len(GivenFields(body)) :
        row[GivenFields(body)[i]] = <<body[GivenFields(body)[i]].v>>

\* C28: two PUTs on the same stored id that set disjoint fields never lose an
\* update: after every interleaving of their statements the stored contact has
\* the values of both. Each UPDATE writes the columns its own body gives, in the
\* row of its id, and nothing else.
C28_DisjointFieldsBothKept ==
    /\ [](\A id \in StoredIds :
            \A bodies \in {pair \in RaceBodies \X RaceBodies : Disjoint(pair[1], pair[2])},
               schedule \in Schedules :
                 LET reqs == <<PutRequest(id, bodies[1]), PutRequest(id, bodies[2])>>
                     row == RunOf(schedule, reqs, contacts).table[NumberOf(id)]
                 IN  HasTheValuesOf(row, bodies[1]) /\ HasTheValuesOf(row, bodies[2]))
    /\ [][\A h \in Handlers :
             GoesOn(h) =>
                LET n == NumberOf(inflight'[h].req.id)
                    body == inflight'[h].req.body
                IN  /\ DOMAIN contacts' = DOMAIN contacts
                    /\ \A id \in DOMAIN contacts \ {n} : contacts'[id] = contacts[id]
                    /\ HasTheValuesOf(contacts'[n], body)
                    /\ \A f \in Fields :
                          (\A i \in 1..Len(GivenFields(body)) : GivenFields(body)[i] # f)
                             => contacts'[n][f] = contacts[n][f]]_vars

\* two PUTs on contact 1 between their UPDATE and their SELECT, one of the first
\* name and one of the last name: the contact has both values
C28_Witness ==
    /\ inflight[1].pc = "select" /\ inflight[2].pc = "select"
    /\ inflight[1].req.id = One /\ inflight[2].req.id = One
    /\ GivenFields(inflight[1].req.body) = <<"firstname">>
    /\ GivenFields(inflight[2].req.body) = <<"lastname">>
    /\ 1 \in DOMAIN contacts
    /\ HasTheValuesOf(contacts[1], inflight[1].req.body)
    /\ HasTheValuesOf(contacts[1], inflight[2].req.body)

-----------------------------------------------------------------------------
(* Properties of a PUT whose contact is deleted before its SELECT *)

\* C29: a PUT whose contact is deleted between its UPDATE and its SELECT is
\* answered 404 "contact not found". A PUT is answered 200 only with the one
\* record its SELECT returned, and the handler never takes the first record of an
\* empty result.
C29_GoneAtTheSelectIs404 ==
    /\ [](resp.req.op = "PUT" =>
            /\ Len(resp.stmts) = 2 => resp.status \in {StatusOK, StatusNotFound}
            /\ resp.status = StatusOK =>
                  /\ Len(resp.stmts) = 2
                  /\ Len(resp.body) = 1
                  /\ resp.body[1].Id = NumberOf(resp.req.id))
    /\ [][\A h \in Handlers :
             AnswersAfterSelect(h) =>
                LET n == NumberOf(inflight[h].req.id)
                IN  /\ resp'.req = inflight[h].req
                    /\ IF n \in DOMAIN contacts
                       THEN /\ resp'.status = StatusOK
                            /\ resp'.body = <<ScanContact(n, contacts[n])>>
                       ELSE /\ resp'.status = StatusNotFound
                            /\ resp'.message = "contact not found"
                            /\ resp'.body = <<>>]_vars

\* a PUT answered 404 after its two statements: its contact was deleted between
\* the UPDATE, which changed a row, and the SELECT
C29_Witness ==
    /\ resp.req.op = "PUT"
    /\ resp.status = StatusNotFound
    /\ resp.message = "contact not found"
    /\ Len(resp.stmts) = 2
    /\ NumberOf(resp.req.id) \in deleted
    /\ NumberOf(resp.req.id) \notin DOMAIN contacts

-----------------------------------------------------------------------------
(* Properties of the requests that change the stored contacts *)

\* a step that handles a whole request and answers it
AnswersAtOnce == inflight' = inflight /\ resp' # resp

\* the step of a POST answered 201 or of a DELETE answered 200
CreatesOrDeletes ==
    /\ AnswersAtOnce
    /\ \/ resp'.req.op = "POST" /\ resp'.status = StatusCreated
       \/ resp'.req.op = "DELETE" /\ resp'.status = StatusOK

\* the contacts change only in the step of a POST answered 201, of a DELETE
\* answered 200 or of the UPDATE of a PUT that goes on to its SELECT; a GET, a
\* search and a request answered 400 or 404 at once leave them as they are
ChangedOnlyByTheStatements ==
    /\ (contacts' # contacts \/ autoIncrement' # autoIncrement)
          => CreatesOrDeletes \/ \E h \in Handlers : GoesOn(h)
    /\ (AnswersAtOnce /\ \/ resp'.req.op \in {"GET", "LIST"}
                         \/ resp'.status \in {StatusBadRequest, StatusNotFound})
          => contacts' = contacts /\ autoIncrement' = autoIncrement
    /\ \A h \in Handlers : AnswersAfterSelect(h) => contacts' = contacts

\* C30 as stated: the stored contacts change only as the effect of a POST answered
\* 201, a PUT answered 200 or a DELETE answered 200; every GET and every request
\* answered 400 or 404 leaves them unchanged: the PUT whose UPDATE changed a
\* contact is answered 200.
C30_ChangedOnlyByTheAnswered2xx ==
    [][/\ ChangedOnlyByTheStatements
       /\ \A h \in Handlers :
             AnswersAfterSelect(h) => resp'.status \notin {StatusBadRequest, StatusNotFound}]_vars

\* C30, amended: the stored contacts change only in the step of a POST answered
\* 201, of a DELETE answered 200 or of the UPDATE of a PUT that changed its
\* contact. Every GET, every search and every request answered 400 or 404 after at
\* most one statement leaves them unchanged. The PUT whose UPDATE changed its
\* contact is answered 200, or 404 when the contact is gone at its SELECT.
C30_ChangedOnlyByTheStatements ==
    [][/\ ChangedOnlyByTheStatements
       /\ \A h \in Handlers :
             GoesOn(h) =>
                /\ NumberOf(inflight'[h].req.id) \in DOMAIN contacts
                /\ contacts'[NumberOf(inflight'[h].req.id)]
                      # contacts[NumberOf(inflight'[h].req.id)]
       /\ \A h \in Handlers :
             AnswersAfterSelect(h) =>
                \/ resp'.status = StatusOK
                \/ /\ resp'.status = StatusNotFound
                   /\ NumberOf(inflight[h].req.id) \notin DOMAIN contacts]_vars

\* a PUT answered 404 after its UPDATE alone, its contact stored, while the PUT
\* of the other goroutine is between its UPDATE and its SELECT
C30_Witness ==
    /\ resp.req.op = "PUT"
    /\ resp.status = StatusNotFound
    /\ Len(resp.stmts) = 1
    /\ NumberOf(resp.req.id) \in DOMAIN contacts
    /\ \E h \in Handlers : inflight[h].pc = "select"

====
